---- MODULE Spec2Model ----
(***************************************************************************)
(* A model of the halma engine: the board geometry and the 256-bit         *)
(* bitboard (src/src/ai/bitboard.rs), the two game-state representations   *)
(* (GameState in src/src/lib.rs, InternalGameState in                      *)
(* src/src/ai/internal_game_state.rs), the incremental hash and the        *)
(* evaluation cache, and the AI that owns them (src/src/ai/mod.rs).        *)
(*                                                                         *)
(* A bitboard is modelled as the set of its set bit indices (0..255); the  *)
(* four 64-bit lanes appear where the code works lane by lane (shifts).    *)
(* A Tile is <<"Empty">>, <<"Invalid">> or <<"Player", p>>.                *)
(* The engine keeps its position in both representations: `state` is the   *)
(* GameState the AI of mod.rs owns, `istate` is the InternalGameState      *)
(* obtained from it by From<GameState>; every move is applied to both.     *)
(***************************************************************************)
EXTENDS Integers, Sequences, FiniteSets, TLC

VARIABLES
    ai,        \* the engine under test (record, see NewAI)
    other,     \* a second engine built from the same GameState (pair runs)
    hist,      \* the moves made on `ai` and not yet unmade
    start,     \* the GameState handed to AI::new
    last,      \* what the last operation was and what it was given
    panicked   \* TRUE once an operation has aborted (panic!, failed assert)

vars == <<ai, other, hist, start, last, panicked>>

----------------------------------------------------------------------------
(* Bounds of the model *)

MaxPly == 2          \* moves made and not unmade on `ai`, small positions
MaxCrowdedPly == 1   \* the same, from the positions with many pieces
MaxPairPly == 3      \* moves made on each engine of a pair run
HashBits == 6        \* width of a hash word (usize in the code)
NumSeeds == 1        \* outcomes of the random generator that are tried
MaxDepth == 3        \* the depths calculate_move is called with: 0 .. MaxDepth
MaxSearchPly == 1    \* moves made before a position is searched
MaxInserts == 1      \* entries put into the table before a picker is made
MaxTableInserts == 2 \* inserts into the transposition tables
MaxEntryPly == 9     \* the plies of the entries given to should_be_replaced_by
MaxNodeSearches == 2 \* calls of search_negamax and calculate_move made on one engine
MaxNodeDepth == 2    \* the depths calculate_move is called with there: 0 .. MaxNodeDepth
MaxGamePly == 2      \* moves made and not unmade from the initial position
MaxRootDepth == 2    \* search_negamax is called from outside with about 0 .. MaxRootDepth plies
ScoreMax == 1000000000  \* stands for Score::max_value(); scores stay far below

----------------------------------------------------------------------------
(* Program constants *)

BOARD_WIDTH == 13
BOARD_HEIGHT == 17
LONG_ROW == 13
TWO_ROWS == 27
LANE_BITS == 64
ONE_PLY == 1000
TT_BITS == 16

Xs == 0 .. (BOARD_WIDTH - 1)
Ys == 0 .. (BOARD_HEIGHT - 1)
BitIndices == 0 .. 255
Players == {0, 1}

Empty == <<"Empty">>
Invalid == <<"Invalid">>
Player(p) == <<"Player", p>>

Abs(n) == IF n < 0 THEN -n ELSE n
Min(a, b) == IF a < b THEN a ELSE b
Max(a, b) == IF a > b THEN a ELSE b

(* -y%2 of the direction tables: unary minus binds tighter than %, and    *)
(* Rust's % truncates, so for y >= 0 it is -(y % 2).                      *)
NegMod2(y) == -(y % 2)

----------------------------------------------------------------------------
(* bitboard.rs *)

(* rows of LONG_ROW cells each *)
pos_to_index_equal_rows(x, y) == y * LONG_ROW + x

pos_to_index(x, y) == (y \div 2) * TWO_ROWS + (y % 2) * LONG_ROW + x

index_to_pos(index) ==
    LET y1 == 2 * (index \div TWO_ROWS)
        i1 == index % TWO_ROWS
        y2 == y1 + (i1 \div LONG_ROW)
        i2 == i1 - (i1 \div LONG_ROW) * LONG_ROW
    IN  <<i2, y2>>

(* The four lanes of BB_INVALID, as the indices of their set bits. *)
BB_INVALID ==
    {  0,   1,   2,   3,   4,   5,   7,   8,   9,  10,  11,  12,  13,  14,
      15,  16,  17,  18,  21,  22,  23,  24,  25,  26,  27,  28,  29,  30,
      31,  35,  36,  37,  38,  39,  40,  41,  42,  43,  44,  49,  50,  51,
      52,  53 }
    \cup
    { 67,  80,  81,  93,  94,  95, 106, 107, 108, 109, 119, 120, 121, 122 }
    \cup
    { 133, 134, 135, 147, 148, 161, 175, 176, 177, 178, 179, 184, 185, 186,
      187, 188, 189, 190, 191 }
    \cup
    { 192, 193, 197, 198, 199, 200, 201, 202, 203, 204, 205, 206, 207, 210,
      211, 212, 213, 214, 215, 216, 217, 218, 219, 220, 221 }
    \cup (223 .. 255)

(* the masks of the two players exchanged *)
BB_TARGET_exchanged(p) ==
    IF p = 0
    THEN {6, 19, 20, 32, 33, 34, 45, 46, 47, 48, 58, 59, 60, 61, 62}
    ELSE {166, 167, 168, 169, 170, 180, 181, 182, 183, 194, 195, 196, 208,
          209, 222}

BB_TARGET(p) ==
    IF p = 0
    THEN {166, 167, 168, 169, 170, 180, 181, 182, 183, 194, 195, 196, 208,
          209, 222}
    ELSE {6, 19, 20, 32, 33, 34, 45, 46, 47, 48, 58, 59, 60, 61, 62}

(* Shl<u8> / Shr<u8> for Bitboard.  Lane k of b << bits is                  *)
(*   (lane k << bits) | (lane k-1 >> (64 - bits)),                         *)
(* and lane k of b >> bits is (lane k >> bits) | (lane k+1 << (64 - bits)).*)
(* A u64 shift keeps the bits that stay inside the lane.  The carry is    *)
(* shifted by 64 - bits, which is 64 for bits = 0: an overflowing shift,   *)
(* which a build without overflow checks takes modulo 64.                  *)
CarryShift(bits) == (LANE_BITS - bits) % LANE_BITS

(* bit i of b << bits *)
ShlBit(bb, bits, i) ==
    LET k == i \div LANE_BITS
        pos == i % LANE_BITS
    IN  \/ pos >= bits /\ (LANE_BITS * k + pos - bits) \in bb
        \/ /\ k >= 1
           /\ pos + CarryShift(bits) < LANE_BITS
           /\ (LANE_BITS * (k - 1) + pos + CarryShift(bits)) \in bb

(* bit i of b >> bits *)
ShrBit(bb, bits, i) ==
    LET k == i \div LANE_BITS
        pos == i % LANE_BITS
    IN  \/ pos + bits < LANE_BITS /\ (LANE_BITS * k + pos + bits) \in bb
        \/ /\ k <= 2
           /\ pos >= CarryShift(bits)
           /\ (LANE_BITS * (k + 1) + pos - CarryShift(bits)) \in bb

(* The shifted boards: the bits that can be set are those a set bit of bb  *)
(* is moved to, inside its lane or by the carry.                           *)
Shl(bb, bits) ==
    {i \in {j + bits : j \in bb}
           \cup {j + LANE_BITS - CarryShift(bits) : j \in bb} :
        i \in BitIndices /\ ShlBit(bb, bits, i)}

Shr(bb, bits) ==
    {i \in {j - bits : j \in bb}
           \cup {j - LANE_BITS + CarryShift(bits) : j \in bb} :
        i \in BitIndices /\ ShrBit(bb, bits, i)}

----------------------------------------------------------------------------
(* lib.rs: GameState *)

RowBounds ==
    << <<6, 6>>, <<6, 7>>, <<5, 7>>, <<5, 8>>, <<0, 12>>, <<1, 12>>,
       <<1, 11>>, <<2, 11>>, <<2, 10>>, <<2, 11>>, <<1, 11>>, <<1, 12>>,
       <<0, 12>>, <<5, 8>>, <<5, 7>>, <<6, 7>>, <<6, 6>> >>

is_valid_location(x, y) ==
    IF y < 0 \/ y >= BOARD_HEIGHT
    THEN FALSE
    ELSE x >= RowBounds[y + 1][1] /\ x <= RowBounds[y + 1][2]

(* GameState::get asserts that (x, y) is on the 13 x 17 array.             *)
InArray(x, y) == x \in Xs /\ y \in Ys
get(state, x, y) == state.board[x][y]

targets(player) ==
    IF player = 0
    THEN << <<4, 12>>, <<5, 12>>, <<6, 12>>, <<7, 12>>, <<8, 12>>,
            <<5, 13>>, <<6, 13>>, <<7, 13>>, <<8, 13>>,
            <<5, 14>>, <<6, 14>>, <<7, 14>>,
            <<6, 15>>, <<7, 15>>,
            <<6, 16>> >>
    ELSE << <<6, 0>>,
            <<6, 1>>, <<7, 1>>,
            <<5, 2>>, <<6, 2>>, <<7, 2>>,
            <<5, 3>>, <<6, 3>>, <<7, 3>>, <<8, 3>>,
            <<4, 4>>, <<5, 4>>, <<6, 4>>, <<7, 4>>, <<8, 4>> >>

(* GameState::won: every target cell holds a piece of `player`.            *)
GameState_won(state, player) ==
    \A k \in 1 .. Len(targets(player)) :
        get(state, targets(player)[k][1], targets(player)[k][2]) = Player(player)

(* GameState::default *)
DefaultGameState ==
    [ board |-> [x \in Xs |-> [y \in Ys |->
          IF ~is_valid_location(x, y) THEN Invalid
          ELSE IF y < 5 /\ Abs(x - 6) < 3 THEN Player(0)
          ELSE IF y > 11 /\ Abs(x - 6) < 3 THEN Player(1)
          ELSE Empty]],
      ply |-> 0,
      current_player |-> 0 ]


(* The six directions of moves_from: <<dx, dy, jx, jy>>.  The table is      *)
(* built from the y of the cell the walk starts from.                      *)
Directions(y) ==
    << <<-1, 0, -2, 0>>, <<1, 0, 2, 0>>,
       <<NegMod2(y) + 1, 1, 1, 2>>, <<NegMod2(y), 1, -1, 2>>,
       <<NegMod2(y) + 1, -1, 1, -2>>, <<NegMod2(y), -1, -1, -2>> >>

Move(from, to) == [from |-> from, to |-> to]
Move_inverse(mov) == [from |-> mov.to, to |-> mov.from]

Contains(seq, e) == \E k \in 1 .. Len(seq) : seq[k] = e
Pop(seq) == SubSeq(seq, 1, Len(seq) - 1)

(* The element of a one-element set.  The({e : x \in {v}}) is e with x    *)
(* standing for the value of v: a call whose result is used in several     *)
(* places, as a local variable of the code is, is written this way.        *)
The(S) == CHOOSE r \in S : TRUE

(* One direction of the for loop at the popped cell (sx, sy): acc is      *)
(* <<jumping_targets, result>>.                                            *)
JumpDirection(state, x, y, sx, sy, k, acc) ==
    LET d == Directions(y)[k]
        lx == sx + d[3]
        ly == sy + d[4]
    IN  IF ~is_valid_location(lx, ly) THEN acc
        ELSE IF /\ get(state, sx + d[1], sy + d[2])[1] = "Player"
                /\ get(state, lx, ly) = Empty
                /\ ~Contains(acc[1], <<lx, ly>>)
                /\ ~Contains(acc[2], Move(<<x, y>>, <<lx, ly>>))
             THEN <<Append(acc[1], <<lx, ly>>),
                    Append(acc[2], Move(<<x, y>>, <<lx, ly>>))>>
             ELSE acc

(* The for loop over the directions lo .. hi at the popped cell, in order: *)
(* the first half of the range, then the second half on what the first     *)
(* half left.                                                              *)
RECURSIVE JumpDirections(_, _, _, _, _, _, _, _)
JumpDirections(state, x, y, sx, sy, lo, hi, acc) ==
    IF lo = hi THEN JumpDirection(state, x, y, sx, sy, lo, acc)
    ELSE The({ JumpDirections(state, x, y, sx, sy, (lo + hi) \div 2 + 1, hi, next)
               : next \in {JumpDirections(state, x, y, sx, sy,
                                          lo, (lo + hi) \div 2, acc)} })

(* while let Some((sx, sy)) = jumping_targets.pop() *)
RECURSIVE JumpWalk(_, _, _, _)
JumpWalk(state, x, y, acc) ==
    IF Len(acc[1]) = 0 THEN acc[2]
    ELSE The({ JumpWalk(state, x, y, next)
               : next \in {JumpDirections(state, x, y,
                                          acc[1][Len(acc[1])][1],
                                          acc[1][Len(acc[1])][2],
                                          1, Len(Directions(y)),
                                          <<Pop(acc[1]), acc[2]>>)} })

(* The slides: a direction pushes its move when the neighbour is a valid,  *)
(* empty cell.                                                             *)
SlideDirections(state, x, y) ==
    LET to(k) == <<x + Directions(y)[k][1], y + Directions(y)[k][2]>>
        Free(mov) == /\ is_valid_location(mov.to[1], mov.to[2])
                     /\ get(state, mov.to[1], mov.to[2]) = Empty
    IN  SelectSeq([k \in 1 .. Len(Directions(y)) |-> Move(<<x, y>>, to(k))], Free)

(* GameState::moves_from: the jump walk, then the six slides.              *)
moves_from(state, x, y) ==
    JumpWalk(state, x, y, << <<<<x, y>>>>, <<>> >>) \o SlideDirections(state, x, y)

(* The cells of the board array in the order of the loops                  *)
(* `for x in 0..BOARD_WIDTH { for y in 0..BOARD_HEIGHT {`.                 *)
BoardCells ==
    [k \in 1 .. BOARD_WIDTH * BOARD_HEIGHT |->
        <<(k - 1) \div BOARD_HEIGHT, (k - 1) % BOARD_HEIGHT>>]

(* result.append(moves_from(x, y)) for the cells cells[lo] .. cells[hi],   *)
(* in order                                                                *)
RECURSIVE MovesOfCells(_, _, _, _)
MovesOfCells(state, cells, lo, hi) ==
    IF lo > hi THEN <<>>
    ELSE IF lo = hi THEN moves_from(state, cells[lo][1], cells[lo][2])
    ELSE MovesOfCells(state, cells, lo, (lo + hi) \div 2)
         \o MovesOfCells(state, cells, (lo + hi) \div 2 + 1, hi)

(* GameState::possible_moves (the list AI::possible_moves builds): the     *)
(* moves of the cells that hold a piece of the side to move.               *)
GameState_possible_moves(state) ==
    LET Mine(c) == get(state, c[1], c[2]) = Player(state.current_player)
    IN  The({ MovesOfCells(state, cells, 1, Len(cells))
              : cells \in {SelectSeq(BoardCells, Mine)} })

(* GameState::move_piece panics on an endpoint off the board.              *)
GameState_move_piece_panics(mov) ==
    \/ ~is_valid_location(mov.from[1], mov.from[2])
    \/ ~is_valid_location(mov.to[1], mov.to[2])

(* move_piece that writes the destination and leaves the piece on its     *)
(* origin                                                                  *)
GameState_move_piece_copying(state, mov) ==
    LET from == get(state, mov.from[1], mov.from[2])
    IN  [state EXCEPT !.board[mov.to[1]][mov.to[2]] = from,
                      !.current_player = 1 - state.current_player]

GameState_move_piece(state, mov) ==
    LET from == get(state, mov.from[1], mov.from[2])
        b1 == [state.board EXCEPT ![mov.to[1]][mov.to[2]] = from]
        b2 == [b1 EXCEPT ![mov.from[1]][mov.from[2]] = Empty]
    IN  [state EXCEPT !.board = b2,
                      !.current_player = 1 - state.current_player]

----------------------------------------------------------------------------
(* internal_game_state.rs: InternalGameState *)

InternalMove(from, to) == [from |-> from, to |-> to]
InternalMove_inverse(mov) == [from |-> mov.to, to |-> mov.from]
InternalMove_from(mov) ==
    InternalMove(pos_to_index(mov.from[1], mov.from[2]),
                 pos_to_index(mov.to[1], mov.to[2]))
InternalMove_to_move(mov) == Move(index_to_pos(mov.from), index_to_pos(mov.to))

PiecesOf(state, player) ==
    {pos_to_index(c[1], c[2]) :
        c \in {d \in Xs \X Ys : get(state, d[1], d[2]) = Player(player)}}

(* From<GameState> asserts that no piece stands on an invalid index.       *)
InternalGameState_from_panics(state) ==
    \E p \in Players : PiecesOf(state, p) \cap BB_INVALID # {}

InternalGameState_from(state) ==
    [ pieces |-> [p \in Players |-> PiecesOf(state, p)],
      ply |-> state.ply,
      current_player |-> state.current_player ]

InternalGameState_is_valid_location(index) == index \notin BB_INVALID

occupied_bb(istate) == istate.pieces[0] \cup istate.pieces[1]
empty_bb(istate) == BitIndices \ occupied_bb(istate)

(* won as "the triangle is full and one of the pieces in it is the        *)
(* player's"                                                               *)
won_triangle_full(istate, player) ==
    /\ BB_TARGET(player) \subseteq occupied_bb(istate)
    /\ istate.pieces[player] \cap BB_TARGET(player) # {}

(* InternalGameState::won *)
won(istate, player) == istate.pieces[player] = BB_TARGET(player)

LeftShifts == << <<1, 2>>, <<13, 26>>, <<14, 28>> >>
RightShifts == << <<1, 2>>, <<13, 26>>, <<14, 28>> >>
Slides == <<255, 1, 13, 14, 243, 242>>

(* One pass of the while loop body: the three left and three right shifts. *)
(* occ_l[k] is occupied << skip and occ_r[k] is occupied >> skip, which do *)
(* not change from pass to pass.                                           *)
JumpStep(jumping_targets, occ_l, occ_r, empty) ==
    jumping_targets
    \cup UNION {{i \in Shl(jumping_targets, LeftShifts[k][2]) :
                    i \in occ_l[k] /\ i \in empty} : k \in 1 .. 3}
    \cup UNION {{i \in Shr(jumping_targets, RightShifts[k][2]) :
                    i \in occ_r[k] /\ i \in empty} : k \in 1 .. 3}

(* the loop body run once: jumps that are not chained *)
JumpFixpoint_one_pass(jumping_targets, next_jumping_targets, occ_l, occ_r, empty) ==
    JumpStep(next_jumping_targets, occ_l, occ_r, empty)

RECURSIVE JumpFixpoint(_, _, _, _, _)
JumpFixpoint(jumping_targets, next_jumping_targets, occ_l, occ_r, empty) ==
    IF jumping_targets = next_jumping_targets THEN jumping_targets
    ELSE JumpFixpoint(next_jumping_targets,
                      JumpStep(next_jumping_targets, occ_l, occ_r, empty),
                      occ_l, occ_r, empty)

(* reachable_from without the !BB_INVALID mask on the empty cells *)
reachable_from_unmasked(istate, from) ==
    LET occupied == occupied_bb(istate)
        empty == empty_bb(istate)
        occ_l == <<Shl(occupied, LeftShifts[1][1]), Shl(occupied, LeftShifts[2][1]),
                   Shl(occupied, LeftShifts[3][1])>>
        occ_r == <<Shr(occupied, RightShifts[1][1]), Shr(occupied, RightShifts[2][1]),
                   Shr(occupied, RightShifts[3][1])>>
        jumps == JumpFixpoint({}, {from}, occ_l, occ_r, empty)
        slides == {to \in {(from + Slides[k]) % 256 : k \in 1 .. 6} : to \in empty}
    IN  (jumps \cup slides) \ {from}

(* InternalGameState::reachable_from *)
reachable_from(istate, from) ==
    LET occupied == occupied_bb(istate)
        empty == (BitIndices \ BB_INVALID) \cap empty_bb(istate)
        occ_l == <<Shl(occupied, LeftShifts[1][1]), Shl(occupied, LeftShifts[2][1]),
                   Shl(occupied, LeftShifts[3][1])>>
        occ_r == <<Shr(occupied, RightShifts[1][1]), Shr(occupied, RightShifts[2][1]),
                   Shr(occupied, RightShifts[3][1])>>
        jumps == JumpFixpoint({}, {from}, occ_l, occ_r, empty)
        slides == {to \in {(from + Slides[k]) % 256 : k \in 1 .. 6} : to \in empty}
    IN  (jumps \cup slides) \ {from}

(* The set bits of a bitboard, least significant first (OnesIterator).     *)
RECURSIVE Ones(_)
Ones(bb) ==
    IF bb = {} THEN <<>>
    ELSE LET lo == CHOOSE i \in bb : \A j \in bb : i <= j
         IN  <<lo>> \o Ones(bb \ {lo})

RECURSIVE MovesOfPieces(_, _)
MovesOfPieces(istate, froms) ==
    IF Len(froms) = 0 THEN <<>>
    ELSE LET from == froms[1]
             tos == Ones(reachable_from(istate, from))
         IN  [k \in 1 .. Len(tos) |-> InternalMove(from, tos[k])]
             \o MovesOfPieces(istate, Tail(froms))

(* InternalGameState::possible_moves *)
possible_moves(istate) ==
    MovesOfPieces(istate, Ones(istate.pieces[istate.current_player]))

move_piece_panics(mov) ==
    \/ ~InternalGameState_is_valid_location(mov.from)
    \/ ~InternalGameState_is_valid_location(mov.to)

SymDiff(a, b) == (a \ b) \cup (b \ a)

(* move_piece that XORs the two bits into the board that does not hold    *)
(* `from`                                                                  *)
move_piece_other_board(istate, mov) ==
    LET bits_to_invert == {mov.from} \cup {mov.to}
        pieces ==
            IF mov.from \in istate.pieces[0]
            THEN [istate.pieces EXCEPT ![1] = SymDiff(@, bits_to_invert)]
            ELSE IF mov.from \in istate.pieces[1]
            THEN [istate.pieces EXCEPT ![0] = SymDiff(@, bits_to_invert)]
            ELSE istate.pieces
    IN  [istate EXCEPT !.pieces = pieces,
                       !.current_player = 1 - istate.current_player]

(* InternalGameState::move_piece: XOR the two bits into the board that     *)
(* holds `from`, then toggle the side to move.                             *)
move_piece(istate, mov) ==
    LET bits_to_invert == {mov.from} \cup {mov.to}
        pieces ==
            IF mov.from \in istate.pieces[0]
            THEN [istate.pieces EXCEPT ![0] = SymDiff(@, bits_to_invert)]
            ELSE IF mov.from \in istate.pieces[1]
            THEN [istate.pieces EXCEPT ![1] = SymDiff(@, bits_to_invert)]
            ELSE istate.pieces
    IN  [istate EXCEPT !.pieces = pieces,
                       !.current_player = 1 - istate.current_player]


----------------------------------------------------------------------------
(* evaluation.rs: the cached aggregates *)

distance_to_center(x, y) == Min(Abs(6 - x), Abs(x - (6 + (y % 2))))

(* the kind taken from the column alone, without the shift of the rows *)
kind_of_column(x, y) == 2 * (x % 2) + (y % 2)

kind(x, y) == 2 * ((x + (y \div 2)) % 2) + (y % 2)

CellsOf(state, player) ==
    {c \in Xs \X Ys : get(state, c[1], c[2]) = Player(player)}

(* dist[p]: the sum, over the pieces of p, of the rows left to the goal   *)
(* side, added up row by row.                                              *)
RECURSIVE SumOver(_, _, _)
SumOver(state, player, y) ==
    IF y >= BOARD_HEIGHT THEN 0
    ELSE Cardinality({c \in CellsOf(state, player) : c[2] = y})
             * (IF player = 0 THEN BOARD_HEIGHT - 1 - y ELSE y)
         + SumOver(state, player, y + 1)

TargetCells(player) == {targets(player)[k] : k \in 1 .. Len(targets(player))}

(* Evaluation::from: one scan of the board.                                *)
Evaluation_from(state) ==
    [ target_kinds |-> [p \in Players |-> [k \in 0 .. 3 |->
          Cardinality({c \in TargetCells(p) : kind(c[1], c[2]) = k})]],
      kinds |-> [p \in Players |-> [k \in 0 .. 3 |->
          Cardinality({c \in CellsOf(state, p) : kind(c[1], c[2]) = k})]],
      ys |-> [p \in Players |-> [y \in Ys |->
          Cardinality({c \in CellsOf(state, p) : c[2] = y})]],
      dist |-> [p \in Players |-> SumOver(state, p, 0)],
      dist_to_center |-> [p \in Players |-> [d \in Xs |->
          Cardinality({c \in CellsOf(state, p) :
                          distance_to_center(c[1], c[2]) = d})]] ]

(* make_move that adds the row difference to dist with the sign of player *)
(* 0 for both players                                                      *)
Evaluation_make_move_one_sign(ev, player, mov) ==
    LET f == index_to_pos(mov.from)
        t == index_to_pos(mov.to)
        k1 == [ev.kinds EXCEPT ![player][kind(f[1], f[2])] = @ - 1]
        k2 == [k1 EXCEPT ![player][kind(t[1], t[2])] = @ + 1]
        y1 == [ev.ys EXCEPT ![player][f[2]] = @ - 1]
        y2 == [y1 EXCEPT ![player][t[2]] = @ + 1]
        d1 == [ev.dist EXCEPT ![player] = @ + (f[2] - t[2])]
        c1 == [ev.dist_to_center EXCEPT
                   ![player][distance_to_center(f[1], f[2])] = @ - 1]
        c2 == [c1 EXCEPT ![player][distance_to_center(t[1], t[2])] = @ + 1]
    IN  [ev EXCEPT !.kinds = k2, !.ys = y2, !.dist = d1, !.dist_to_center = c2]

(* Evaluation::make_move (EvaluationCache::update): the statements in      *)
(* their order, each on the result of the one before.                      *)
Evaluation_make_move(ev, player, mov) ==
    LET f == index_to_pos(mov.from)
        t == index_to_pos(mov.to)
        k1 == [ev.kinds EXCEPT ![player][kind(f[1], f[2])] = @ - 1]
        k2 == [k1 EXCEPT ![player][kind(t[1], t[2])] = @ + 1]
        y1 == [ev.ys EXCEPT ![player][f[2]] = @ - 1]
        y2 == [y1 EXCEPT ![player][t[2]] = @ + 1]
        d1 == [ev.dist EXCEPT ![player] =
                   IF player = 0 THEN @ + (f[2] - t[2]) ELSE @ + (t[2] - f[2])]
        c1 == [ev.dist_to_center EXCEPT
                   ![player][distance_to_center(f[1], f[2])] = @ - 1]
        c2 == [c1 EXCEPT ![player][distance_to_center(t[1], t[2])] = @ + 1]
    IN  [ev EXCEPT !.kinds = k2, !.ys = y2, !.dist = d1, !.dist_to_center = c2]

Evaluation_unmake_move(ev, player, mov) ==
    Evaluation_make_move(ev, player, InternalMove_inverse(mov))

----------------------------------------------------------------------------
(* incremental_hasher.rs / mod.rs: the hash *)

RECURSIVE Pow2(_)
Pow2(n) == IF n = 0 THEN 1 ELSE 2 * Pow2(n - 1)

HashModulus == Pow2(HashBits)

(* a ^ b on unsigned words *)
RECURSIVE Xor(_, _)
Xor(a, b) ==
    IF a = 0 THEN b
    ELSE IF b = 0 THEN a
    ELSE (((a % 2) + (b % 2)) % 2) + 2 * Xor(a \div 2, b \div 2)

(* IncrementalHasher::default draws every word from the random generator; *)
(* `seed` names the outcome of the draw.                                   *)
tile_hashes(seed, x, y, colour) ==
    ((seed * 53 + x * 17 + y * 29 + colour * 101 + x * y * 7 + 3) * 37)
        % HashModulus
to_move_hash(seed) == (seed * 97 + 5) % HashModulus

(* IncrementalHasher::update *)
IncrementalHasher_update(seed, current_player, mov) ==
    LET from == tile_hashes(seed, mov.from[1], mov.from[2], current_player)
        to == tile_hashes(seed, mov.to[1], mov.to[2], current_player)
    IN  Xor(Xor(from, to), to_move_hash(seed))

----------------------------------------------------------------------------
(* mod.rs: the transposition table and the evaluation of a position *)

(* Option<T>: None, Some(v) *)
None == <<>>
Some(v) == <<v>>
Unwrap(o) == o[1]

(* a / b on signed integers, which rounds toward zero *)
TruncDiv(a, b) == IF a >= 0 THEN a \div b ELSE -((-a) \div b)

ScoreMin == -ScoreMax - 1

(* enum Evaluation *)
Exact(score) == <<"Exact", score>>
LowerBound(score) == <<"LowerBound", score>>
UpperBound(score) == <<"UpperBound", score>>

TT_SIZE == Pow2(TT_BITS)

(* TranspositionTable::default: every slot None.  `table` holds the slots  *)
(* that are Some.                                                          *)
TranspositionTable_default ==
    [ table |-> <<>>, insertion |-> 0, replace |-> 0, update |-> 0 ]

(* TranspositionTable::get *)
TranspositionTable_get(tt, hash, state) ==
    LET slot == hash % TT_SIZE
    IN  IF slot \in DOMAIN tt.table
        THEN IF tt.table[slot].state # state THEN None
             ELSE Some(tt.table[slot].t)
        ELSE None

(* TranspositionTable::insert *)
TranspositionTable_insert(tt, hash, state, transposition) ==
    LET slot == hash % TT_SIZE
        same == slot \in DOMAIN tt.table /\ tt.table[slot].state = state
        differs == slot \in DOMAIN tt.table /\ tt.table[slot].state # state
    IN  [ table |-> [k \in DOMAIN tt.table \cup {slot} |->
                        IF k = slot THEN [state |-> state, t |-> transposition]
                        ELSE tt.table[k]],
          insertion |-> tt.insertion + 1,
          replace |-> IF differs THEN tt.replace + 1 ELSE tt.replace,
          update |-> IF same THEN tt.update + 1 ELSE tt.update ]

(* the statistics of AI, all zero in AI::new and at the start of           *)
(* calculate_move                                                          *)
ZeroStats ==
    [ visited_nodes |-> 0, visited_leaf_nodes |-> 0, beta_cutoffs |-> 0,
      tt_lookups |-> 0, tt_hits |-> 0, tt_cutoffs |-> 0,
      pv_nullsearches |-> 0, pv_failed_nullsearches |-> 0,
      moves_explored |-> [k \in 0 .. 7 |-> 0] ]

Bump(a, counter) == [a EXCEPT !.stats[counter] = @ + 1]
BumpMovesExplored(a, n) == [a EXCEPT !.stats.moves_explored[Min(7, n)] = @ + 1]

RECURSIVE SumTo(_, _)
SumTo(f, n) == IF n < 0 THEN 0 ELSE f[n] + SumTo(f, n - 1)

(* EvaluationCache::score_kinds *)
score_kinds(ev) ==
    LET p0 == SumTo([k \in 0 .. 3 |-> Abs(ev.target_kinds[0][k] - ev.kinds[0][k])], 3)
        p1 == SumTo([k \in 0 .. 3 |-> Abs(ev.target_kinds[1][k] - ev.kinds[1][k])], 3)
    IN  TruncDiv(100000 * (p1 - p0), 12)

(* EvaluationCache::score_total_distance *)
score_total_distance(ev) == TruncDiv(100000 * (ev.dist[1] - ev.dist[0]), 209)

(* some row count of the player is positive: find(..) is Some *)
HasPiece(ev, p) == \E y \in Ys : ev.ys[p][y] > 0

(* score_dist_last_piece that takes, for player 1 too, the first row with *)
(* a piece                                                                 *)
score_dist_last_piece_first_row(ev) ==
    LET y0 == CHOOSE y \in Ys : ev.ys[0][y] > 0 /\ \A z \in Ys : z < y => ~(ev.ys[0][z] > 0)
        p0 == BOARD_HEIGHT - 1 - y0
        p1 == CHOOSE y \in Ys : ev.ys[1][y] > 0 /\ \A z \in Ys : z < y => ~(ev.ys[1][z] > 0)
    IN  TruncDiv(100000 * (p1 - p0), 17)

(* EvaluationCache::score_dist_last_piece: p0 is the first position, from *)
(* the end of the reversed rows, with a piece of player 0 (the rows its    *)
(* hindmost piece has to go), p1 the last row with a piece of player 1.    *)
score_dist_last_piece(ev) ==
    LET y0 == CHOOSE y \in Ys : ev.ys[0][y] > 0 /\ \A z \in Ys : z < y => ~(ev.ys[0][z] > 0)
        p0 == BOARD_HEIGHT - 1 - y0
        p1 == CHOOSE y \in Ys : ev.ys[1][y] > 0 /\ \A z \in Ys : z > y => ~(ev.ys[1][z] > 0)
    IN  TruncDiv(100000 * (p1 - p0), 17)

(* EvaluationCache::score_centralization *)
score_centralization(ev) ==
    LET p0 == SumTo([d \in Xs |-> Max(0, d - 3) * ev.dist_to_center[0][d]], BOARD_WIDTH - 1)
        p1 == SumTo([d \in Xs |-> Max(0, d - 3) * ev.dist_to_center[1][d]], BOARD_WIDTH - 1)
    IN  TruncDiv(100000 * (p1 - p0), 100)

(* the unwrap() of score_dist_last_piece panics for a player with no piece *)
evaluate_position_panics(a) ==
    ~HasPiece(a.evaluation, 0) \/ ~HasPiece(a.evaluation, 1)

(* evaluate_position that leaves out the change of sign for player 1 *)
evaluate_position_unsigned(a) ==
    score_dist_last_piece(a.evaluation)
    + score_total_distance(a.evaluation)
    + TruncDiv(score_centralization(a.evaluation), 3)
    + TruncDiv(score_kinds(a.evaluation), 6)

(* AI::evaluate_position: the score *)
evaluate_position(a) ==
    LET score == score_dist_last_piece(a.evaluation)
                 + score_total_distance(a.evaluation)
                 + TruncDiv(score_centralization(a.evaluation), 3)
                 + TruncDiv(score_kinds(a.evaluation), 6)
    IN  IF a.state.current_player = 0 THEN score ELSE -score

----------------------------------------------------------------------------
(* evaluation.rs: Evaluation::evaluate and its terms *)

(* Evaluation::score_kinds *)
Evaluation_score_kinds(ev) ==
    LET p0 == SumTo([k \in 0 .. 3 |-> Abs(ev.target_kinds[0][k] - ev.kinds[0][k])], 3)
        p1 == SumTo([k \in 0 .. 3 |-> Abs(ev.target_kinds[1][k] - ev.kinds[1][k])], 3)
    IN  p1 - p0

(* Evaluation::score_dist_last_piece: the rows the hindmost piece of each  *)
(* player stands away from its own side, player 1's less player 0's        *)
Evaluation_score_dist_last_piece(ev) ==
    LET y0 == CHOOSE y \in Ys : ev.ys[0][y] > 0 /\ \A z \in Ys : z < y => ~(ev.ys[0][z] > 0)
        p0 == BOARD_HEIGHT - 1 - y0
        p1 == CHOOSE y \in Ys : ev.ys[1][y] > 0 /\ \A z \in Ys : z > y => ~(ev.ys[1][z] > 0)
    IN  p1 - p0

(* Evaluation::score_total_distance *)
Evaluation_score_total_distance(ev) ==
    ev.dist[1] - ev.dist[0] - Evaluation_score_dist_last_piece(ev)

(* Evaluation::score_centralization *)
Evaluation_score_centralization(ev) ==
    LET p0 == SumTo([d \in Xs |-> Max(0, d - 1) * ev.dist_to_center[0][d]], BOARD_WIDTH - 1)
        p1 == SumTo([d \in Xs |-> Max(0, d - 1) * ev.dist_to_center[1][d]], BOARD_WIDTH - 1)
    IN  p1 - p0

(* the sum over the pieces of a board of the number of cells each reaches  *)
RECURSIVE Mobility(_, _)
Mobility(istate, froms) ==
    IF Len(froms) = 0 THEN 0
    ELSE Cardinality(reachable_from(istate, froms[1])) + Mobility(istate, Tail(froms))

(* Evaluation::score_mobility *)
Evaluation_score_mobility(istate) ==
    Mobility(istate, Ones(istate.pieces[0])) - Mobility(istate, Ones(istate.pieces[1]))

(* Evaluation::evaluate *)
Evaluation_evaluate(ev, istate) ==
    LET score == TruncDiv(100000 * Evaluation_score_dist_last_piece(ev), 17)
                 + TruncDiv(100000 * Evaluation_score_total_distance(ev), 209)
                 + TruncDiv(100000 * Evaluation_score_centralization(ev), 100)
                 + TruncDiv(100000 * Evaluation_score_kinds(ev), 120)
                 + Evaluation_score_mobility(istate) * 2
    IN  IF istate.current_player = 0 THEN score ELSE -score

----------------------------------------------------------------------------
(* mod.rs: the AI *)

(* AI::new *)
AI_new(state, seed) ==
    [ state |-> state,
      istate |-> InternalGameState_from(state),
      evaluation |-> Evaluation_from(state),
      transpositions |-> TranspositionTable_default,
      stats |-> ZeroStats,
      hasher |-> seed,
      hash |-> 0 ]

(* update_hash that leaves out the side-to-move word *)
update_hash_no_side(a, mov) ==
    [a EXCEPT !.hash =
        Xor(@, Xor(IncrementalHasher_update(a.hasher, a.state.current_player, mov),
                   to_move_hash(a.hasher)))]

(* update_hash that leaves out the word of the `to` cell *)
update_hash_no_to(a, mov) ==
    [a EXCEPT !.hash =
        Xor(@, Xor(tile_hashes(a.hasher, mov.from[1], mov.from[2],
                               a.state.current_player),
                   to_move_hash(a.hasher)))]

(* AI::update_hash *)
update_hash(a, mov) ==
    [a EXCEPT !.hash =
        Xor(@, IncrementalHasher_update(a.hasher, a.state.current_player, mov))]

(* self.state.move_piece(mov), on both representations *)
state_move_piece(a, mov) ==
    [a EXCEPT !.state = GameState_move_piece(@, mov),
              !.istate = move_piece(@, InternalMove_from(mov))]

(* AI::internal_make_move up to the call of move_piece: the evaluation     *)
(* and the hash are updated first.                                         *)
internal_make_move_updates(a, mov) ==
    LET a1 == [a EXCEPT !.evaluation =
                   Evaluation_make_move(@, a.state.current_player,
                                        InternalMove_from(mov))]
    IN  update_hash(a1, mov)

(* AI::internal_make_move *)
internal_make_move(a, mov) ==
    state_move_piece(internal_make_move_updates(a, mov), mov)

(* internal_unmake_move that updates the evaluation before the piece is   *)
(* moved back, so for the player who did not make the move                 *)
internal_unmake_move_update_first(a, mov) ==
    LET a1 == [a EXCEPT !.evaluation =
                   Evaluation_make_move(@, a.state.current_player,
                                        InternalMove_from(Move_inverse(mov)))]
        a2 == state_move_piece(a1, Move_inverse(mov))
    IN  update_hash(a2, Move_inverse(mov))

(* internal_unmake_move that leaves the hash of the position after the    *)
(* move                                                                    *)
internal_unmake_move_keeps_hash(a, mov) ==
    LET a1 == state_move_piece(a, Move_inverse(mov))
    IN  [a1 EXCEPT !.evaluation =
            Evaluation_make_move(@, a1.state.current_player,
                                 InternalMove_from(Move_inverse(mov)))]

(* AI::internal_unmake_move *)
internal_unmake_move(a, mov) ==
    LET a1 == state_move_piece(a, Move_inverse(mov))
        a2 == [a1 EXCEPT !.evaluation =
                   Evaluation_make_move(@, a1.state.current_player,
                                        InternalMove_from(Move_inverse(mov)))]
    IN  update_hash(a2, Move_inverse(mov))

SetPly(a, ply) == [a EXCEPT !.state.ply = ply, !.istate.ply = ply]

(* AI::make_move *)
make_move(a, mov) ==
    LET a1 == internal_make_move(a, mov)
    IN  SetPly(a1, a1.state.ply + 1)

(* AI::unmake_move *)
unmake_move(a, mov) ==
    LET a1 == internal_unmake_move(a, mov)
    IN  SetPly(a1, a1.state.ply - 1)

AI_move_panics(mov) ==
    GameState_move_piece_panics(mov) \/ move_piece_panics(InternalMove_from(mov))

(* AI::possible_moves *)
AI_possible_moves(a) == GameState_possible_moves(a.state)

SeqToSet(seq) == {seq[k] : k \in 1 .. Len(seq)}
LegalMoves(a) == SeqToSet(AI_possible_moves(a))

----------------------------------------------------------------------------
(* mod.rs: the search *)

(* insert_transposition that weighs the new entry against whatever entry   *)
(* the slot holds, of this position or of another                          *)
insert_transposition_against_slot(a, evaluation, best_move, depth) ==
    IF best_move = None THEN a
    ELSE LET transposition == [ evaluation |-> evaluation,
                                best_move |-> Unwrap(best_move),
                                depth |-> depth,
                                ply |-> a.state.ply ]
             slot == a.hash % TT_SIZE
             table == a.transpositions.table
             insert(e) == [e EXCEPT !.transpositions =
                              TranspositionTable_insert(@, e.hash, e.state, transposition)]
         IN  IF slot \notin DOMAIN table THEN insert(a)
             ELSE IF \/ table[slot].t.ply + 6 < a.state.ply
                     \/ table[slot].t.depth <= depth
                  THEN insert(a)
                  ELSE a

(* AI::insert_transposition *)
insert_transposition(a, evaluation, best_move, depth) ==
    IF best_move = None THEN a
    ELSE LET transposition == [ evaluation |-> evaluation,
                                best_move |-> Unwrap(best_move),
                                depth |-> depth,
                                ply |-> a.state.ply ]
             old == TranspositionTable_get(a.transpositions, a.hash, a.state)
             insert(e) == [e EXCEPT !.transpositions =
                              TranspositionTable_insert(@, e.hash, e.state, transposition)]
         IN  IF old = None THEN insert(a)
             ELSE LET a1 == IF Unwrap(old).ply + 6 < a.state.ply THEN insert(a) ELSE a
                  IN  IF Unwrap(old).depth <= depth THEN insert(a1) ELSE a1

(* AI::get_transposition: None, or Some of [score |-> Option, mov |-> Move] *)
get_transposition(a, alpha, beta, depth) ==
    LET found == TranspositionTable_get(a.transpositions, a.hash, a.state)
    IN  IF found = None THEN None
        ELSE LET transposition == Unwrap(found)
                 mov == transposition.best_move
                 evaluation == transposition.evaluation
             IN  IF transposition.depth < depth
                 THEN Some([score |-> None, mov |-> mov])
                 ELSE IF evaluation[1] = "Exact"
                 THEN Some([score |-> Some(evaluation[2]), mov |-> mov])
                 ELSE IF evaluation[1] = "LowerBound" /\ evaluation[2] >= beta
                 THEN Some([score |-> Some(beta), mov |-> mov])
                 ELSE IF evaluation[1] = "UpperBound" /\ evaluation[2] <= alpha
                 THEN Some([score |-> Some(alpha), mov |-> mov])
                 ELSE None

(* the closure score_move_order *)
score_move_order(current_player, mov) ==
    IF current_player = 0 THEN mov.to[2] - mov.from[2]
    ELSE mov.from[2] - mov.to[2]

(* The loop `for j in i+1..num_moves` that looks for max_i, started with   *)
(* max_i: a later index replaces max_i only with a strictly greater score, *)
(* so the loop ends on the first index from max_i on with the greatest     *)
(* score.                                                                  *)
MaxIndex(moves, current_player, j, max_i) ==
    LET indices == {max_i} \cup (j .. Len(moves))
        score(k) == score_move_order(current_player, moves[k])
    IN  CHOOSE k \in indices :
            \A l \in indices : score(l) < score(k) \/ (score(l) = score(k) /\ l >= k)

Swap(moves, i, j) == [moves EXCEPT ![i] = moves[j], ![j] = moves[i]]

(* OrderedMovesIterator: the moves in the order next() gives them; the     *)
(* calls of next() for the indices lo .. hi, each of which picks the best  *)
(* remaining move and swaps it to the front.  Indices count from 1 here:   *)
(* index i is the code's index i - 1.                                      *)
RECURSIVE OrderFrom(_, _, _, _)
OrderFrom(moves, lo, hi, current_player) ==
    IF lo > hi THEN moves
    ELSE IF lo = hi
    THEN Swap(moves, lo, MaxIndex(moves, current_player, lo + 1, lo))
    ELSE The({ OrderFrom(sorted, (lo + hi) \div 2 + 1, hi, current_player)
               : sorted \in {OrderFrom(moves, lo, (lo + hi) \div 2, current_player)} })

(* the first n calls of next() order; the later ones take the moves as     *)
(* they are                                                                *)
order(moves, n, current_player) ==
    The({ OrderFrom(list, 1, Min(n, Len(list)), current_player) : list \in {moves} })

(* MoveList::order: the iterator before its first call *)
MoveList_order(moves, n) == [moves |-> moves, n |-> n, index |-> 0]

(* next() that looks for the best remaining move on every call *)
OrderedMovesIterator_next_always_sorting(it, current_player) ==
    IF it.index = Len(it.moves) THEN [it |-> it, item |-> None]
    ELSE LET swapped == Swap(it.moves, it.index + 1,
                             MaxIndex(it.moves, current_player,
                                      it.index + 2, it.index + 1))
         IN  [ it |-> [it EXCEPT !.moves = swapped, !.index = @ + 1],
               item |-> Some(swapped[it.index + 1]) ]

(* OrderedMovesIterator::next (MoveListIterator::next is the same code     *)
(* over InternalMove): [it |-> the iterator after the call, item |-> the   *)
(* Option returned].  The code's index i is index i + 1 of the sequence.   *)
OrderedMovesIterator_next(it, current_player) ==
    IF it.index = Len(it.moves) THEN [it |-> it, item |-> None]
    ELSE LET swapped ==
                 IF it.index < it.n
                 THEN Swap(it.moves, it.index + 1,
                           MaxIndex(it.moves, current_player,
                                    it.index + 2, it.index + 1))
                 ELSE it.moves
         IN  [ it |-> [it EXCEPT !.moves = swapped, !.index = @ + 1],
               item |-> Some(swapped[it.index + 1]) ]

(* AI::search_negamax.  A call gives [a |-> the engine after it,          *)
(* score |-> the value returned].  The local variables of a node, while    *)
(* its moves are tried, are the frame [a, alpha, is_exact, best_move,      *)
(* moves_explored, ret]; ret is Some(score) once the node has returned.    *)
(* The result of a call that is used in several places, as a local         *)
(* variable of the code is, is named by CHOOSE r \in {e : x \in {call}},   *)
(* which is e with x standing for the value of the call.                   *)
RECURSIVE search_negamax(_, _, _, _, _)
RECURSIVE SearchMoves(_, _, _, _, _, _, _)

(* step 3 without the cutoff: the score of the table move only raises      *)
(* alpha                                                                   *)
SearchTTScore_without_cutoff(a2, tt_mov, tt_move_score, moves_explored, alpha, beta, depth) ==
    LET frame == [ a |-> a2, alpha |-> alpha, is_exact |-> FALSE,
                   best_move |-> None, moves_explored |-> moves_explored,
                   ret |-> None ]
    IN  CASE tt_move_score > alpha ->
                 [ frame EXCEPT !.alpha = tt_move_score, !.is_exact = TRUE,
                                !.best_move = Some(tt_mov) ]
          [] OTHER -> frame

(* step 3, from the score of the table move on: the cutoff, or a raised    *)
(* alpha                                                                   *)
SearchTTScore(a2, tt_mov, tt_move_score, moves_explored, alpha, beta, depth) ==
    LET frame == [ a |-> a2, alpha |-> alpha, is_exact |-> FALSE,
                   best_move |-> None, moves_explored |-> moves_explored,
                   ret |-> None ]
    IN  CASE tt_move_score >= beta ->
                 [ frame EXCEPT
                     !.a = BumpMovesExplored(
                               insert_transposition(Bump(a2, "tt_cutoffs"),
                                                    LowerBound(beta), Some(tt_mov), depth),
                               moves_explored),
                     !.ret = Some(beta) ]
          [] tt_move_score < beta /\ tt_move_score > alpha ->
                 [ frame EXCEPT !.alpha = tt_move_score, !.is_exact = TRUE,
                                !.best_move = Some(tt_mov) ]
          [] OTHER -> frame

(* step 3: the transposition table move *)
SearchTT(a, ply, alpha, beta, depth) ==
    CHOOSE frame \in
      { CASE found = None ->
                 [ a |-> Bump(a, "tt_lookups"), alpha |-> alpha, is_exact |-> FALSE,
                   best_move |-> None, moves_explored |-> 0, ret |-> None ]
          [] found # None /\ Unwrap(found).score # None ->
                 SearchTTScore(Bump(Bump(a, "tt_lookups"), "tt_hits"), Unwrap(found).mov,
                               Unwrap(Unwrap(found).score), 0, alpha, beta, depth)
          [] OTHER ->
                 CHOOSE scored \in
                   { SearchTTScore(internal_unmake_move(child.a, Unwrap(found).mov),
                                   Unwrap(found).mov, -child.score, 1, alpha, beta, depth)
                     : child \in {search_negamax(
                                      internal_make_move(
                                          Bump(Bump(a, "tt_lookups"), "tt_hits"),
                                          Unwrap(found).mov),
                                      ply + 1, -beta, -alpha, depth - ONE_PLY)} } : TRUE
        : found \in {get_transposition(a, alpha, beta, depth)} } : TRUE

(* step 4, the score of one move, a1 being the engine after the move: the  *)
(* first move with the full window, the others with a null window and a    *)
(* shallower depth first                                                   *)
SearchChild(a1, moves_explored, ply, alpha, beta, depth) ==
    CASE moves_explored = 0 ->
             CHOOSE r \in
               { [a |-> full.a, score |-> -full.score]
                 : full \in {search_negamax(a1, ply + 1, -beta, -alpha,
                                            depth - ONE_PLY)} } : TRUE
      [] OTHER ->
             CHOOSE r \in
               { CASE -null.score > alpha ->
                          CHOOSE r2 \in
                            { [a |-> retry.a, score |-> -retry.score]
                              : retry \in {search_negamax(
                                               Bump(null.a, "pv_failed_nullsearches"),
                                               ply + 1, -beta, -alpha,
                                               depth - ONE_PLY)} } : TRUE
                   [] OTHER -> [a |-> null.a, score |-> -null.score]
                 : null \in {search_negamax(Bump(a1, "pv_nullsearches"), ply + 1,
                                            -alpha - 1, -alpha,
                                            depth - TruncDiv(ONE_PLY * 5, 3))} } : TRUE

(* step 4: the body of the loop for one move *)
SearchMove(f, mov, ply, beta, depth) ==
    CHOOSE frame \in
      { LET a2 == internal_unmake_move(r.a, mov)
            moves_explored == f.moves_explored + 1
        IN  CASE r.score >= beta ->
                     [ f EXCEPT
                         !.a = BumpMovesExplored(
                                   insert_transposition(Bump(a2, "beta_cutoffs"),
                                                        LowerBound(beta), Some(mov),
                                                        depth),
                                   moves_explored),
                         !.moves_explored = moves_explored,
                         !.ret = Some(beta) ]
              [] r.score < beta /\ r.score > f.alpha ->
                     [ f EXCEPT !.a = a2, !.alpha = r.score, !.is_exact = TRUE,
                                !.best_move = Some(mov),
                                !.moves_explored = moves_explored ]
              [] OTHER -> [ f EXCEPT !.a = a2, !.moves_explored = moves_explored ]
        : r \in {SearchChild(internal_make_move(f.a, mov), f.moves_explored,
                             ply, f.alpha, beta, depth)} } : TRUE

(* step 4: the loop over the ordered moves moves[lo] .. moves[hi], in      *)
(* order: the first half of the range, then the second half from the       *)
(* frame the first half left; a return ends the loop                       *)
SearchMoves(f, moves, lo, hi, ply, beta, depth) ==
    CASE lo > hi \/ f.ret # None -> f
      [] lo = hi /\ f.ret = None -> SearchMove(f, moves[lo], ply, beta, depth)
      [] OTHER ->
             CHOOSE frame \in
               { SearchMoves(g, moves, (lo + hi) \div 2 + 1, hi, ply, beta, depth)
                 : g \in {SearchMoves(f, moves, lo, (lo + hi) \div 2,
                                      ply, beta, depth)} } : TRUE

(* the end of search_negamax: the value of a cutoff, or the table entry    *)
(* and alpha                                                               *)
SearchReturn(f, depth) ==
    IF f.ret # None THEN [a |-> f.a, score |-> Unwrap(f.ret)]
    ELSE [ a |-> BumpMovesExplored(
                     insert_transposition(
                         f.a,
                         IF f.is_exact THEN Exact(f.alpha) ELSE UpperBound(f.alpha),
                         f.best_move, depth),
                     f.moves_explored),
           score |-> f.alpha ]

(* step 4 of a node, f1 being the frame step 3 left: the moves are         *)
(* generated and ordered, tried, and the node returns                      *)
SearchLoop(f1, ply, beta, depth) ==
    CHOOSE r \in
      { CHOOSE r2 \in
          { SearchReturn(f2, depth)
            : f2 \in {SearchMoves(f1, moves, 1, Len(moves), ply, beta, depth)} } : TRUE
        : moves \in {order(AI_possible_moves(f1.a), 8, f1.a.state.current_player)} }
      : TRUE

(* search_negamax that evaluates statically only below depth 0 *)
search_negamax_leaf_below_zero(a, ply, alpha, beta, depth) ==
    CHOOSE r \in
      { CASE GameState_won(a0.state, 1 - a0.state.current_player) ->
                 [a |-> a0, score |-> -ScoreMax + ply]
          [] ~GameState_won(a0.state, 1 - a0.state.current_player) /\ depth < 0 ->
                 [a |-> Bump(a0, "visited_leaf_nodes"), score |-> evaluate_position(a0)]
          [] OTHER ->
                 CHOOSE r2 \in
                   { CASE f1.ret # None -> [a |-> f1.a, score |-> Unwrap(f1.ret)]
                       [] OTHER -> SearchLoop(f1, ply, beta, depth)
                     : f1 \in {SearchTT(a0, ply, alpha, beta, depth)} } : TRUE
        : a0 \in {Bump(a, "visited_nodes")} } : TRUE

search_negamax(a, ply, alpha, beta, depth) ==
    CHOOSE r \in
      { CASE GameState_won(a0.state, 1 - a0.state.current_player) ->
                 [a |-> a0, score |-> -ScoreMax + ply]
          [] ~GameState_won(a0.state, 1 - a0.state.current_player) /\ depth <= 0 ->
                 [a |-> Bump(a0, "visited_leaf_nodes"), score |-> evaluate_position(a0)]
          [] OTHER ->
                 CHOOSE r2 \in
                   { CASE f1.ret # None -> [a |-> f1.a, score |-> Unwrap(f1.ret)]
                       [] OTHER -> SearchLoop(f1, ply, beta, depth)
                     : f1 \in {SearchTT(a0, ply, alpha, beta, depth)} } : TRUE
        : a0 \in {Bump(a, "visited_nodes")} } : TRUE

(* calculate_move, the value v of one move at the root, a1 being the       *)
(* engine after the move                                                   *)
RootChild(a1, moves_explored, alpha, beta, d) ==
    CASE moves_explored = 0 ->
             CHOOSE r \in
               { [a |-> full.a, v |-> -full.score]
                 : full \in {search_negamax(a1, 1, -beta, -alpha, d * ONE_PLY)} } : TRUE
      [] OTHER ->
             CHOOSE r \in
               { CASE -null.score > alpha ->
                          CHOOSE r2 \in
                            { [a |-> retry.a, v |-> -retry.score]
                              : retry \in {search_negamax(
                                               Bump(null.a, "pv_failed_nullsearches"),
                                               1, -beta, -alpha, d * ONE_PLY)} } : TRUE
                   [] OTHER -> [a |-> null.a, v |-> -null.score]
                 : null \in {search_negamax(Bump(a1, "pv_nullsearches"), 1,
                                            -alpha - 1, -alpha, d * ONE_PLY)} } : TRUE

(* calculate_move: the body of `for i in 0..num_moves` for one i.  The    *)
(* root frame is [a, moves, alpha, max_move, max_score, score,             *)
(* moves_explored].  Indices count from 1: index i is the code's i - 1.    *)
RootMove(f, i, d) ==
    CHOOSE frame \in
      { CHOOSE frame2 \in
          { LET mov == moves[i]
                raised == r.v > f.alpha
                alpha == IF raised THEN r.v ELSE f.alpha
            IN  [ a |-> internal_unmake_move(r.a, mov),
                  moves |-> moves,
                  alpha |-> alpha,
                  max_move |-> IF raised THEN mov ELSE f.max_move,
                  max_score |-> IF raised THEN r.v ELSE f.max_score,
                  score |-> Max(alpha, f.score),
                  moves_explored |-> f.moves_explored + 1 ]
            : r \in {RootChild(internal_make_move(f.a, moves[i]),
                               f.moves_explored, f.alpha, ScoreMax, d)} } : TRUE
        : moves \in { IF f.moves_explored < 8
                      THEN Swap(f.moves, i,
                                MaxIndex(f.moves, f.a.state.current_player, i + 1, i))
                      ELSE f.moves } } : TRUE

(* calculate_move: `for i in 0..num_moves` over the indices lo .. hi, in   *)
(* order: the first half of the range, then the second half                *)
RECURSIVE RootMoves(_, _, _, _)
RootMoves(f, lo, hi, d) ==
    CASE lo > hi -> f
      [] lo = hi -> RootMove(f, lo, d)
      [] OTHER ->
             CHOOSE frame \in
               { RootMoves(g, (lo + hi) \div 2 + 1, hi, d)
                 : g \in {RootMoves(f, lo, (lo + hi) \div 2, d)} } : TRUE

(* calculate_move: `for d in 0..depth`, from iteration d on *)
RECURSIVE RootIterations(_, _, _)
RootIterations(f, d, depth) ==
    CASE d >= depth -> f
      [] OTHER ->
             CHOOSE frame \in
               { RootIterations(g, d + 1, depth)
                 : g \in {RootMoves([f EXCEPT !.moves_explored = 0,
                                              !.alpha = -ScoreMax,
                                              !.max_score = -ScoreMax,
                                              !.score = ScoreMin],
                                    1, Len(f.moves), d)} } : TRUE

(* moves[0] of an empty list is out of bounds; a leaf is evaluated from   *)
(* depth 1 on                                                              *)
calculate_move_panics(a, depth) ==
    Len(AI_possible_moves(a)) = 0 \/ (depth >= 1 /\ evaluate_position_panics(a))

(* calculate_move up to its return: the root frame after the last          *)
(* iteration                                                               *)
RootSearch(a, depth) ==
    CHOOSE frame \in
      { RootIterations([ a |-> [a EXCEPT !.stats = ZeroStats,
                                         !.transpositions.insertion = 0,
                                         !.transpositions.replace = 0,
                                         !.transpositions.update = 0],
                         moves |-> moves, alpha |-> -ScoreMax,
                         max_move |-> moves[1], max_score |-> -ScoreMax,
                         score |-> ScoreMin, moves_explored |-> 0 ], 0, depth)
        : moves \in {AI_possible_moves(a)} } : TRUE

(* calculate_move that gives back the chosen move with from and to        *)
(* exchanged                                                               *)
calculate_move_exchanged(a, depth) ==
    CHOOSE r \in { [a |-> f.a, max_move |-> Move_inverse(f.max_move)]
                   : f \in {RootSearch(a, depth)} } : TRUE

(* calculate_move that runs one iteration less: `for d in 0..depth-1`      *)
calculate_move_one_less(a, depth) ==
    CHOOSE r \in { [a |-> f.a, max_move |-> f.max_move]
                   : f \in {RootSearch(a, depth - 1)} } : TRUE

(* AI::calculate_move: [a |-> the engine after the call, max_move |-> the  *)
(* move returned]                                                          *)
calculate_move(a, depth) ==
    CHOOSE r \in { [a |-> f.a, max_move |-> f.max_move]
                   : f \in {RootSearch(a, depth)} } : TRUE

----------------------------------------------------------------------------
(* tt.rs: the transposition table keyed by InternalGameState *)

tt_TT_BITS == 20
tt_TT_SIZE == Pow2(tt_TT_BITS)

(* Transposition::should_be_replaced_by that ages an entry from a ply     *)
(* difference of 6 on                                                      *)
should_be_replaced_by_from_six(self, new, pv) ==
    pv \/ self.ply + 6 <= new.ply \/ self.depth <= new.depth

(* Transposition::should_be_replaced_by: self is the entry in the table,   *)
(* new the one to be stored                                                *)
should_be_replaced_by(self, new, pv) ==
    IF pv THEN TRUE
    ELSE IF self.ply + 6 < new.ply THEN TRUE
    ELSE IF self.depth <= new.depth THEN TRUE
    ELSE FALSE

(* TranspositionTable::get of tt.rs that gives the entry of the slot       *)
(* whatever state it was stored for                                        *)
tt_get_any_state(tt, hash, state) ==
    LET slot == hash % tt_TT_SIZE
    IN  IF slot \in DOMAIN tt.table THEN Some(tt.table[slot].t) ELSE None

(* TranspositionTable::get of tt.rs *)
tt_get(tt, hash, state) ==
    LET slot == hash % tt_TT_SIZE
    IN  IF slot \in DOMAIN tt.table
        THEN IF tt.table[slot].state # state THEN None
             ELSE Some(tt.table[slot].t)
        ELSE None

(* TranspositionTable::insert of tt.rs *)
tt_insert(tt, hash, state, transposition) ==
    LET slot == hash % tt_TT_SIZE
        same == slot \in DOMAIN tt.table /\ tt.table[slot].state = state
        differs == slot \in DOMAIN tt.table /\ tt.table[slot].state # state
    IN  [ table |-> [k \in DOMAIN tt.table \cup {slot} |->
                        IF k = slot THEN [state |-> state, t |-> transposition]
                        ELSE tt.table[k]],
          insertion |-> tt.insertion + 1,
          replace |-> IF differs THEN tt.replace + 1 ELSE tt.replace,
          update |-> IF same THEN tt.update + 1 ELSE tt.update ]

----------------------------------------------------------------------------
(* move_picker.rs: MovePicker.  A picker is [state, hash, stage]; the      *)
(* table it shares with the search is given to next.  A stage is           *)
(* [kind |-> "TTMove"], [kind |-> "Generate", already_generated, reachable]*)
(* or [kind |-> "All", index, moves]; `index` counts the moves emitted, so *)
(* the code's moves[index] is moves[index + 1] here.                       *)

StageTTMove == [kind |-> "TTMove"]
StageGenerate(already_generated, reachable) ==
    [kind |-> "Generate", already_generated |-> already_generated,
     reachable |-> reachable]
StageAll(index, moves) == [kind |-> "All", index |-> index, moves |-> moves]

MovePicker_new(state, hash) ==
    [state |-> state, hash |-> hash, stage |-> StageTTMove]

(* the score of player 0 given to both players *)
move_score_of_player_0(player, mov) == mov.to - mov.from

(* fn move_score *)
move_score(player, mov) ==
    IF player = 0 THEN mov.to - mov.from ELSE mov.from - mov.to

(* self.main_tt.borrow().get(self.hash): the picker looks the table up by  *)
(* the hash alone and gets what the slot holds, which may have been stored *)
(* for another position (the comment in the TTMove stage)                  *)
MovePicker_tt_entry(tt, hash) ==
    LET slot == hash % tt_TT_SIZE
    IN  IF slot \in DOMAIN tt.table THEN Some(tt.table[slot].t) ELSE None

(* the moves of one piece, in the order of reachable.ones() *)
MovesTo(from, reachable) ==
    LET tos == Ones(reachable)
    IN  [k \in 1 .. Len(tos) |-> InternalMove(from, tos[k])]

(* stage All: the selection of the best remaining move while index < 8,    *)
(* and the move emitted                                                    *)
MovePicker_next_All(picker) ==
    LET index == picker.stage.index
        moves == picker.stage.moves
        num_moves == Len(moves)
        player == picker.state.current_player
        indices == (index + 1) .. num_moves
        max_i == CHOOSE k \in indices : \A l \in indices :
                     \/ move_score(player, moves[l]) < move_score(player, moves[k])
                     \/ /\ move_score(player, moves[l]) = move_score(player, moves[k])
                        /\ l >= k
        swapped == IF index < 8
                   THEN [moves EXCEPT ![index + 1] = moves[max_i],
                                      ![max_i] = moves[index + 1]]
                   ELSE moves
    IN  IF index = num_moves THEN [picker |-> picker, item |-> None]
        ELSE [ picker |-> [picker EXCEPT !.stage = StageAll(index + 1, swapped)],
               item |-> Some(swapped[index + 1]) ]

(* stage Generate: the moves of the piece whose reachability was cached,   *)
(* then those of the other pieces                                          *)
MovePicker_next_Generate(picker) ==
    LET mine == picker.state.pieces[picker.state.current_player]
        already_generated == picker.stage.already_generated
        remaining_pieces ==
            IF already_generated # None THEN mine \ {Unwrap(already_generated)}
            ELSE mine
        first == IF already_generated # None
                 THEN MovesTo(Unwrap(already_generated), picker.stage.reachable)
                 ELSE <<>>
        moves == first \o MovesOfPieces(picker.state, Ones(remaining_pieces))
    IN  MovePicker_next_All([picker EXCEPT !.stage = StageAll(0, moves)])

(* stage TTMove that returns the table's move without testing it *)
MovePicker_next_TTMove_unchecked(picker, tt) ==
    LET tt_entry == MovePicker_tt_entry(tt, picker.hash)
        mov == Unwrap(tt_entry).best_move
    IN  IF tt_entry # None
        THEN [ picker |-> [picker EXCEPT !.stage =
                              StageGenerate(Some(mov.from),
                                            reachable_from(picker.state, mov.from))],
               item |-> Some(mov) ]
        ELSE MovePicker_next_Generate(
                 [picker EXCEPT !.stage = StageGenerate(None, {})])

(* stage TTMove *)
MovePicker_next_TTMove(picker, tt) ==
    LET tt_entry == MovePicker_tt_entry(tt, picker.hash)
        mov == Unwrap(tt_entry).best_move
        reachable == reachable_from(picker.state, mov.from)
    IN  IF /\ tt_entry # None
           /\ mov.from \in picker.state.pieces[picker.state.current_player]
           /\ mov.to \in reachable
        THEN [ picker |-> [picker EXCEPT !.stage =
                              StageGenerate(Some(mov.from), reachable)],
               item |-> Some(mov) ]
        ELSE MovePicker_next_Generate(
                 [picker EXCEPT !.stage = StageGenerate(None, {})])

(* MovePicker::next: [picker |-> the picker after the call, item |-> the   *)
(* Option returned]                                                        *)
MovePicker_next(picker, tt) ==
    CASE picker.stage.kind = "TTMove" -> MovePicker_next_TTMove(picker, tt)
      [] picker.stage.kind = "Generate" ->
             MovePicker_next_Generate(picker)
      [] OTHER -> MovePicker_next_All(picker)

----------------------------------------------------------------------------
(* The positions an engine is constructed from *)

(* A GameState with the given pieces on an otherwise empty board.          *)
Position(p0, p1, current_player) ==
    [ board |-> [x \in Xs |-> [y \in Ys |->
          IF ~is_valid_location(x, y) THEN Invalid
          ELSE IF <<x, y>> \in p0 THEN Player(0)
          ELSE IF <<x, y>> \in p1 THEN Player(1)
          ELSE Empty]],
      ply |-> 0,
      current_player |-> current_player ]

(* One piece each, on the two tips of the star.                            *)
TipsPosition == Position({<<6, 0>>}, {<<6, 16>>}, 0)

(* Two pieces next to each other in the middle of the board.               *)
DuelPosition == Position({<<6, 7>>}, {<<6, 8>>}, 0)

(* Pieces at the ends of the long rows 4 and 5, where a shift crosses into *)
(* the next row: index 66 = (12, 4) is followed by the invalid 67.         *)
EdgePosition ==
    Position({<<12, 4>>, <<11, 4>>}, {<<12, 5>>, <<0, 4>>}, 0)

(* Player 0 one slide away from filling its target triangle.               *)
NearWinPosition ==
    Position((TargetCells(0) \ {<<4, 12>>}) \cup {<<4, 11>>},
             {<<6, 4>>, <<6, 5>>}, 0)

(* Player 0 holds 14 target cells; player 1 is about to step on the 15th.  *)
BlockedPosition ==
    Position((TargetCells(0) \ {<<4, 12>>}) \cup {<<6, 8>>},
             {<<4, 11>>, <<6, 4>>}, 1)

SmallStarts == {TipsPosition, DuelPosition}
StartStates ==
    SmallStarts \cup
    {DefaultGameState, EdgePosition, NearWinPosition, BlockedPosition}

(* How many moves are made from a start: MaxPly from the small positions,  *)
(* MaxCrowdedPly from the positions with many pieces.                      *)
PlyBound(s) == IF s \in SmallStarts THEN MaxPly ELSE MaxCrowdedPly

----------------------------------------------------------------------------
(* The state machine *)

NoEngine == <<>>

Init ==
    /\ start \in StartStates
    /\ \E seed \in 1 .. NumSeeds : ai = AI_new(start, seed)
    /\ other = NoEngine
    /\ hist = <<>>
    /\ last = [op |-> "new"]
    /\ panicked = FALSE

(* ai.make_move(mov) with a legal move *)
MakeMove ==
    /\ ~panicked
    /\ Len(hist) < PlyBound(start)
    /\ \E mov \in LegalMoves(ai) :
          /\ ai' = make_move(ai, mov)
          /\ hist' = Append(hist, mov)
          /\ last' = [op |-> "make"]
    /\ UNCHANGED <<other, start, panicked>>

(* ai.unmake_move(mov) of the move made last *)
UnmakeMove ==
    /\ ~panicked
    /\ Len(hist) > 0
    /\ ai' = unmake_move(ai, hist[Len(hist)])
    /\ last' = [op |-> "unmake"]
    /\ hist' = Pop(hist)
    /\ UNCHANGED <<other, start, panicked>>

Next == MakeMove \/ UnmakeMove

Spec == Init /\ [][Next]_vars

----------------------------------------------------------------------------
(* make_move called with any move a caller can build, legal or not *)

(* the cells the caller's moves are built from: the two pieces of          *)
(* DuelPosition, two empty cells beside them and a corner of the array     *)
ContractCells == {<<6, 7>>, <<6, 8>>, <<5, 7>>, <<7, 7>>, <<0, 0>>}

InitContract ==
    /\ start = DuelPosition
    /\ \E seed \in 1 .. NumSeeds : ai = AI_new(start, seed)
    /\ other = NoEngine
    /\ hist = <<>>
    /\ last = [op |-> "new"]
    /\ panicked = FALSE

(* ai.make_move(mov): move_piece panics on an invalid endpoint, after the  *)
(* evaluation and the hash were updated; any other move is carried out.    *)
ApplyMove ==
    /\ ~panicked
    /\ Len(hist) < MaxPly
    /\ \E from \in ContractCells, to \in ContractCells :
          LET mov == Move(from, to)
          IN  /\ IF AI_move_panics(mov)
                 THEN /\ ai' = internal_make_move_updates(ai, mov)
                      /\ panicked' = TRUE
                 ELSE /\ ai' = make_move(ai, mov)
                      /\ panicked' = FALSE
              /\ hist' = Append(hist, mov)
              /\ last' = [op |-> "move", mov |-> mov]
    /\ UNCHANGED <<other, start>>

NextContract == ApplyMove

SpecContract == InitContract /\ [][NextContract]_vars

----------------------------------------------------------------------------
(* Two engines with the same hasher, constructed from the same position,   *)
(* each making its own legal moves: the positions one engine reaches by    *)
(* one order of moves and the other by another.                            *)

InitPair ==
    /\ start = TipsPosition
    /\ \E seed \in 1 .. NumSeeds :
          /\ ai = AI_new(start, seed)
          /\ other = [ai |-> AI_new(start, seed), hist |-> <<>>]
    /\ hist = <<>>
    /\ last = [op |-> "new"]
    /\ panicked = FALSE

(* ai.make_move(mov) on the first engine *)
MakeMoveFirst ==
    /\ Len(hist) < MaxPairPly
    /\ \E mov \in LegalMoves(ai) :
          /\ ai' = make_move(ai, mov)
          /\ hist' = Append(hist, mov)
    /\ last' = [op |-> "first"]
    /\ UNCHANGED <<other, start, panicked>>

(* ai.make_move(mov) on the second engine *)
MakeMoveSecond ==
    /\ Len(other.hist) < MaxPairPly
    /\ \E mov \in LegalMoves(other.ai) :
          other' = [ai |-> make_move(other.ai, mov),
                    hist |-> Append(other.hist, mov)]
    /\ last' = [op |-> "second"]
    /\ UNCHANGED <<ai, hist, start, panicked>>

NextPair == MakeMoveFirst \/ MakeMoveSecond

SpecPair == InitPair /\ [][NextPair]_vars

----------------------------------------------------------------------------
(* calculate_move called on the positions of a game *)

SearchStarts == {TipsPosition, DuelPosition, EdgePosition}

InitSearch ==
    /\ start \in SearchStarts
    /\ \E seed \in 1 .. NumSeeds : ai = AI_new(start, seed)
    /\ other = NoEngine
    /\ hist = <<>>
    /\ last = [op |-> "new"]
    /\ panicked = FALSE

(* ai.make_move(mov) with any legal move, as the opening move of a game   *)
(* whose later moves come from calculate_move                              *)
PlayMove ==
    /\ ~panicked
    /\ last.op = "new"
    /\ Len(hist) < MaxSearchPly
    /\ \E mov \in LegalMoves(ai) :
          /\ ai' = make_move(ai, mov)
          /\ hist' = Append(hist, mov)
          /\ last' = [op |-> "make"]
    /\ UNCHANGED <<other, start, panicked>>

(* ai.calculate_move(depth) *)
CalculateMove ==
    /\ ~panicked
    /\ last.op # "calculate"
    /\ \E depth \in 0 .. MaxDepth :
          IF calculate_move_panics(ai, depth)
          THEN /\ panicked' = TRUE
               /\ last' = [op |-> "calculate", depth |-> depth, max_move |-> None]
               /\ UNCHANGED ai
          ELSE \E r \in {calculate_move(ai, depth)} :
                   /\ panicked' = FALSE
                   /\ ai' = r.a
                   /\ last' = [op |-> "calculate", depth |-> depth,
                               max_move |-> Some(r.max_move)]
    /\ UNCHANGED <<other, hist, start>>

(* ai.make_move(mov) with the move calculate_move returned *)
PlaySearched ==
    /\ ~panicked
    /\ last.op = "calculate"
    /\ Len(hist) < MaxSearchPly
    /\ ai' = make_move(ai, Unwrap(last.max_move))
    /\ hist' = Append(hist, Unwrap(last.max_move))
    /\ last' = [op |-> "make"]
    /\ UNCHANGED <<other, start, panicked>>

NextSearch == PlayMove \/ CalculateMove \/ PlaySearched

SpecSearch == InitSearch /\ [][NextSearch]_vars


----------------------------------------------------------------------------
(* A move picker over a table other positions have written to: entries are *)
(* inserted, a picker is made for a position and a hash, and next is       *)
(* called until it returns None.                                           *)

PickerStarts == {DuelPosition, EdgePosition}

(* the hashes used: 0 and TT_SIZE share slot 0 *)
PickerHashes == {0, 1, tt_TT_SIZE}

(* the cells the stored best moves go between: the two pieces of           *)
(* DuelPosition, an empty neighbour of the first and the cell behind the   *)
(* second, where the first can jump to                                     *)
PickerCells == {pos_to_index(6, 7), pos_to_index(6, 8), pos_to_index(5, 7),
                pos_to_index(7, 9)}

InitPicker ==
    /\ start \in PickerStarts
    /\ ai = [tt |-> TranspositionTable_default, picker |-> None]
    /\ other = NoEngine
    /\ hist = <<>>
    /\ last = [op |-> "new"]
    /\ panicked = FALSE

(* main_tt.insert(hash, state, transposition), by a search of any position *)
TTInsert ==
    /\ ai.picker = None
    /\ ai.tt.insertion < MaxInserts
    /\ \E hash \in PickerHashes, state \in PickerStarts,
          from \in PickerCells, to \in PickerCells :
          ai' = [ai EXCEPT !.tt =
                    tt_insert(@, hash, InternalGameState_from(state),
                              [ evaluation |-> Exact(0),
                                best_move |-> InternalMove(from, to),
                                depth |-> ONE_PLY, ply |-> 0 ])]
    /\ last' = [op |-> "insert"]
    /\ UNCHANGED <<other, hist, start, panicked>>

(* MovePicker::new(state, hash, main_tt) *)
NewPicker ==
    /\ ai.picker = None
    /\ \E hash \in PickerHashes :
          ai' = [ai EXCEPT !.picker =
                    Some(MovePicker_new(InternalGameState_from(start), hash))]
    /\ last' = [op |-> "picker"]
    /\ UNCHANGED <<other, hist, start, panicked>>

(* picker.next(), until it has returned None *)
PickerNext ==
    /\ ai.picker # None
    /\ last.op # "done"
    /\ \E r \in {MovePicker_next(Unwrap(ai.picker), ai.tt)} :
          /\ ai' = [ai EXCEPT !.picker = Some(r.picker)]
          /\ IF r.item = None
             THEN hist' = hist /\ last' = [op |-> "done"]
             ELSE hist' = Append(hist, Unwrap(r.item)) /\ last' = [op |-> "next"]
    /\ UNCHANGED <<other, start, panicked>>

NextPicker == TTInsert \/ NewPicker \/ PickerNext

SpecPicker == InitPicker /\ [][NextPicker]_vars

----------------------------------------------------------------------------
(* The two transposition tables (mod.rs keyed by GameState, tt.rs keyed by *)
(* InternalGameState) given the same inserts and lookups; hist is the log  *)
(* of the inserts.                                                         *)

(* 0, 2^16 and 2^20 share slot 0 of the table of mod.rs; 0 and 2^20 share  *)
(* slot 0 of the table of tt.rs                                            *)
TableHashes == {0, TT_SIZE, tt_TT_SIZE}

(* two positions, and the first of them again at a later ply *)
TableStates ==
    {TipsPosition, DuelPosition, [TipsPosition EXCEPT !.ply = 2]}

(* the entry of the n-th insert: the entries differ, by their depth *)
TableEntry(n) ==
    [ evaluation |-> Exact(0), best_move |-> InternalMove(6, 19),
      depth |-> n * ONE_PLY, ply |-> 0 ]

InitTable ==
    /\ start = TipsPosition
    /\ ai = [tt |-> TranspositionTable_default,
             transpositions |-> TranspositionTable_default]
    /\ other = NoEngine
    /\ hist = <<>>
    /\ last = [op |-> "new"]
    /\ panicked = FALSE

(* insert(hash, state, transposition) on both tables *)
TableInsert ==
    /\ Len(hist) < MaxTableInserts
    /\ \E hash \in TableHashes, state \in TableStates :
          /\ ai' = [ tt |-> tt_insert(ai.tt, hash, InternalGameState_from(state),
                                      TableEntry(Len(hist))),
                     transpositions |->
                         TranspositionTable_insert(ai.transpositions, hash, state,
                                                   TableEntry(Len(hist))) ]
          /\ hist' = Append(hist, [hash |-> hash, state |-> state,
                                   t |-> TableEntry(Len(hist))])
    /\ last' = [op |-> "insert"]
    /\ UNCHANGED <<other, start, panicked>>

(* get(hash, state) on both tables *)
TableGet ==
    /\ \E hash \in TableHashes, state \in TableStates :
          last' = [ op |-> "get", hash |-> hash, state |-> state,
                    tt |-> tt_get(ai.tt, hash, InternalGameState_from(state)),
                    transpositions |->
                        TranspositionTable_get(ai.transpositions, hash, state) ]
    /\ UNCHANGED <<ai, other, hist, start, panicked>>

NextTable == TableInsert \/ TableGet

SpecTable == InitTable /\ [][NextTable]_vars

----------------------------------------------------------------------------
(* should_be_replaced_by applied to pairs of entries *)

EntryDepths == {0, ONE_PLY, 2 * ONE_PLY}

(* an entry of the table at a ply and a depth *)
EntryAt(ply, depth) ==
    [ evaluation |-> Exact(0), best_move |-> InternalMove(6, 19),
      depth |-> depth, ply |-> ply ]

InitReplace ==
    /\ start = TipsPosition
    /\ \E old_ply \in 0 .. 2, new_ply \in 0 .. MaxEntryPly,
          old_depth \in EntryDepths, new_depth \in EntryDepths,
          pv \in BOOLEAN :
          ai = [ old |-> EntryAt(old_ply, old_depth),
                 new |-> EntryAt(new_ply, new_depth), pv |-> pv ]
    /\ other = NoEngine
    /\ hist = <<>>
    /\ last = [op |-> "new"]
    /\ panicked = FALSE

(* old.should_be_replaced_by(&new, pv) *)
ShouldBeReplaced ==
    /\ last.op = "new"
    /\ last' = [op |-> "replace",
                result |-> should_be_replaced_by(ai.old, ai.new, ai.pv)]
    /\ UNCHANGED <<ai, other, hist, start, panicked>>

NextReplace == ShouldBeReplaced

SpecReplace == InitReplace /\ [][NextReplace]_vars

----------------------------------------------------------------------------
(* calculate_move(1) on positions where the side to move can fill its      *)
(* target triangle with one move: 14 of its pieces stand on target cells   *)
(* and the 15th can slide or jump onto the target cell left.               *)

(* the cells the 15th piece stands on: the row in front of the triangle    *)
WinFromCells(p) == {<<x, IF p = 0 THEN 11 ELSE 5>> : x \in 3 .. 9}

(* the pieces of the other player, away from the triangle *)
WinOpponents(p) ==
    IF p = 0 THEN {{<<6, 4>>, <<6, 5>>}, {<<6, 6>>}}
    ELSE {{<<6, 12>>, <<6, 11>>}, {<<6, 10>>}}

WinPosition(p, t, c, opp) ==
    IF p = 0 THEN Position((TargetCells(0) \ {t}) \cup {c}, opp, 0)
    ELSE Position(opp, (TargetCells(1) \ {t}) \cup {c}, 1)

WinStarts ==
    {s \in {WinPosition(w[1], w[2], w[3], w[4]) :
               w \in UNION {{p} \X TargetCells(p) \X WinFromCells(p) \X WinOpponents(p)
                            : p \in Players}} :
        \E c \in CellsOf(s, s.current_player) \ TargetCells(s.current_player) :
            \E k \in 1 .. Len(moves_from(s, c[1], c[2])) :
                TargetCells(s.current_player) \subseteq
                    CellsOf(GameState_move_piece(s, moves_from(s, c[1], c[2])[k]),
                            s.current_player)}

InitWin ==
    /\ start \in WinStarts
    /\ \E seed \in 1 .. NumSeeds : ai = AI_new(start, seed)
    /\ other = NoEngine
    /\ hist = <<>>
    /\ last = [op |-> "new"]
    /\ panicked = FALSE

(* ai.calculate_move(1): one iteration, d = 0, every move answered by a    *)
(* node of depth 0                                                         *)
CalculateOnePly ==
    /\ ~panicked
    /\ last.op = "new"
    /\ IF calculate_move_panics(ai, 1)
       THEN /\ panicked' = TRUE
            /\ last' = [op |-> "calculate", depth |-> 1, max_move |-> None]
            /\ UNCHANGED ai
       ELSE \E r \in {calculate_move(ai, 1)} :
                /\ panicked' = FALSE
                /\ ai' = r.a
                /\ last' = [op |-> "calculate", depth |-> 1,
                            max_move |-> Some(r.max_move)]
    /\ UNCHANGED <<other, hist, start>>

NextWin == CalculateOnePly \/ PlaySearched

SpecWin == InitWin /\ [][NextWin]_vars

----------------------------------------------------------------------------
(* Engines constructed on a position with either side to move.  The        *)
(* initial board with player 1 to move is a position of the game: a piece  *)
(* of player 0 goes round three neighbouring cells while a piece of        *)
(* player 1 steps out and back.                                            *)

EitherSideStarts ==
    {[s EXCEPT !.current_player = p] :
        s \in {DefaultGameState, TipsPosition, DuelPosition}, p \in Players}

InitEither ==
    /\ start \in EitherSideStarts
    /\ \E seed \in 1 .. NumSeeds : ai = AI_new(start, seed)
    /\ other = NoEngine
    /\ hist = <<>>
    /\ last = [op |-> "new"]
    /\ panicked = FALSE

SpecEither == InitEither /\ [][Next]_vars

----------------------------------------------------------------------------
(* The shifts of a Bitboard applied to boards and shift amounts.  Here ai  *)
(* is the board shifted.                                                   *)

(* the greatest amount the assert!(bits < 64) of shl and shr lets through  *)
MaxShiftBits == 63

(* bits at the ends of the four lanes *)
LaneEnds == {0, 1, 62, 63, 64, 65, 126, 127, 128, 129, 190, 191, 192, 254, 255}

(* boards of one bit at a lane end, the first lane full, and the board of  *)
(* the playing cells                                                       *)
ShiftBoards ==
    {{i} : i \in LaneEnds} \cup {0 .. 63, BitIndices \ BB_INVALID}

InitShift ==
    /\ start = TipsPosition
    /\ ai \in ShiftBoards
    /\ other = NoEngine
    /\ hist = <<>>
    /\ last = [op |-> "new"]
    /\ panicked = FALSE

(* The carry of a shift by 0 is shifted by 64 - 0 = 64, the width of the   *)
(* lane: a build with overflow checks panics there, a build without takes  *)
(* the amount modulo 64 (CarryShift).                                      *)
ShiftOverflows(bits) == LANE_BITS - bits >= LANE_BITS

(* bb << bits *)
ShiftLeft ==
    /\ last.op = "new"
    /\ \E bits \in 0 .. MaxShiftBits :
          \/ /\ ShiftOverflows(bits)
             /\ panicked' = TRUE
             /\ last' = [op |-> "shl", bits |-> bits, result |-> None]
          \/ /\ panicked' = FALSE
             /\ last' = [op |-> "shl", bits |-> bits, result |-> Some(Shl(ai, bits))]
    /\ UNCHANGED <<ai, other, hist, start>>

(* bb >> bits *)
ShiftRight ==
    /\ last.op = "new"
    /\ \E bits \in 0 .. MaxShiftBits :
          \/ /\ ShiftOverflows(bits)
             /\ panicked' = TRUE
             /\ last' = [op |-> "shr", bits |-> bits, result |-> None]
          \/ /\ panicked' = FALSE
             /\ last' = [op |-> "shr", bits |-> bits, result |-> Some(Shr(ai, bits))]
    /\ UNCHANGED <<ai, other, hist, start>>

NextShift == ShiftLeft \/ ShiftRight

SpecShift == InitShift /\ [][NextShift]_vars

----------------------------------------------------------------------------
(* The cell numbering applied to the cells of the board array.  Here ai is *)
(* the cell <<x, y>>.                                                      *)

InitCells ==
    /\ start = TipsPosition
    /\ ai \in Xs \X Ys
    /\ other = NoEngine
    /\ hist = <<>>
    /\ last = [op |-> "new"]
    /\ panicked = FALSE

(* pos_to_index of the cell and index_to_pos of the result, with what the  *)
(* board array and the masks say of the cell                               *)
CellIndex ==
    /\ last.op = "new"
    /\ last' = The({ [op |-> "index",
                      index |-> index,
                      pos |-> index_to_pos(index),
                      valid |-> is_valid_location(ai[1], ai[2]),
                      invalid_bit |-> index \in BB_INVALID,
                      targets |-> {p \in Players : index \in BB_TARGET(p)}]
                     : index \in {pos_to_index(ai[1], ai[2])} })
    /\ UNCHANGED <<ai, other, hist, start, panicked>>

(* One direction of the table of moves_from at a playing cell: the         *)
(* neighbour and the jump landing, numbered when they are on the array,    *)
(* and their kinds when they are playing cells.                            *)
CellWalk ==
    /\ last.op = "new"
    /\ is_valid_location(ai[1], ai[2])
    /\ \E k \in 1 .. Len(Directions(ai[2])) :
          LET d == Directions(ai[2])[k]
              Numbered(x, y) ==
                  IF InArray(x, y) THEN Some(pos_to_index(x, y)) ELSE None
              KindOf(x, y) ==
                  IF is_valid_location(x, y) THEN Some(kind(x, y)) ELSE None
          IN  last' = [op |-> "walk",
                       k |-> k,
                       index |-> pos_to_index(ai[1], ai[2]),
                       neighbour |-> Numbered(ai[1] + d[1], ai[2] + d[2]),
                       landing |-> Numbered(ai[1] + d[3], ai[2] + d[4]),
                       kind |-> kind(ai[1], ai[2]),
                       neighbour_kind |-> KindOf(ai[1] + d[1], ai[2] + d[2]),
                       landing_kind |-> KindOf(ai[1] + d[3], ai[2] + d[4])]
    /\ UNCHANGED <<ai, other, hist, start, panicked>>

NextCells == CellIndex \/ CellWalk

SpecCells == InitCells /\ [][NextCells]_vars

----------------------------------------------------------------------------
(* The two ordering iterators run over the moves of a position: the        *)
(* iterator of possible_moves().order(8, score_move_order) and a picker    *)
(* with an empty table.  hist is what the first has returned, other what   *)
(* the second has returned.                                                *)

(* three pieces a side, none next to another: 18 slides of either side,    *)
(* six forward, six in the row, six backward                               *)
SpreadPosition(current_player) ==
    Position({<<3, 6>>, <<6, 8>>, <<9, 10>>}, {<<3, 10>>, <<6, 4>>, <<9, 6>>},
             current_player)

OrderStarts ==
    {SpreadPosition(0), SpreadPosition(1), DefaultGameState, DuelPosition}

InitOrder ==
    /\ start \in OrderStarts
    /\ ai = [ ordered |-> MoveList_order(GameState_possible_moves(start), 8),
              picker |-> MovePicker_new(InternalGameState_from(start), 0) ]
    /\ other = <<>>
    /\ hist = <<>>
    /\ last = [op |-> "new"]
    /\ panicked = FALSE

(* next() of the iterator over the moves of possible_moves *)
OrderedNext ==
    /\ \E r \in {OrderedMovesIterator_next(ai.ordered, start.current_player)} :
          /\ ai' = [ai EXCEPT !.ordered = r.it]
          /\ hist' = IF r.item = None THEN hist ELSE Append(hist, Unwrap(r.item))
          /\ last' = [op |-> "ordered", before |-> ai.ordered, item |-> r.item]
    /\ UNCHANGED <<other, start, panicked>>

(* next() of the picker *)
PickerAllNext ==
    /\ \E r \in {MovePicker_next(ai.picker, TranspositionTable_default)} :
          /\ ai' = [ai EXCEPT !.picker = r.picker]
          /\ other' = IF r.item = None THEN other ELSE Append(other, Unwrap(r.item))
          /\ last' = [op |-> "picker", before |-> ai.picker, item |-> r.item]
    /\ UNCHANGED <<hist, start, panicked>>

NextOrder == OrderedNext \/ PickerAllNext

SpecOrder == InitOrder /\ [][NextOrder]_vars

----------------------------------------------------------------------------
(* search_negamax called on a position as calculate_move calls it for the  *)
(* position after a root move: ply 1, a window and a remaining depth.      *)
(* hist is the log of the calls.                                           *)

(* Player 0 has filled its triangle and player 1 is to move.               *)
WonPosition == Position(TargetCells(0), {<<6, 4>>, <<6, 5>>}, 1)

NodeStarts == {TipsPosition, DuelPosition, EdgePosition, WonPosition}

(* the depths of a node: d * ONE_PLY of calculate_move, less ONE_PLY and   *)
(* less ONE_PLY * 5 / 3 for the children                                   *)
NodeDepths ==
    {0, ONE_PLY, 2 * ONE_PLY,
     2 * ONE_PLY - TruncDiv(ONE_PLY * 5, 3),
     2 * ONE_PLY - TruncDiv(ONE_PLY * 5, 3) - ONE_PLY}

(* the full window and the null windows at its two ends; a node of depth   *)
(* 0 or less, which does not look at its window, gets the full one         *)
NodeWindows(depth) ==
    IF depth <= 0 THEN { <<-ScoreMax, ScoreMax>> }
    ELSE { <<-ScoreMax, ScoreMax>>, <<-ScoreMax, -ScoreMax + 1>>,
           <<ScoreMax - 1, ScoreMax>> }

InitNode ==
    /\ start \in NodeStarts
    /\ ai = AI_new(start, 1)
    /\ other = NoEngine
    /\ hist = <<>>
    /\ last = [op |-> "new"]
    /\ panicked = FALSE

(* self.search_negamax(1, alpha, beta, depth) *)
SearchNode ==
    /\ Len(hist) < MaxNodeSearches
    /\ \E depth \in NodeDepths : \E window \in NodeWindows(depth) :
          \E r \in {search_negamax(ai, 1, window[1], window[2], depth)} :
              /\ ai' = r.a
              /\ hist' = Append(hist, [alpha |-> window[1], beta |-> window[2],
                                       depth |-> depth, score |-> r.score])
              /\ last' = [op |-> "search", before |-> ai, alpha |-> window[1],
                          beta |-> window[2], depth |-> depth, score |-> r.score]
    /\ UNCHANGED <<other, start, panicked>>

(* self.calculate_move(depth) on the same engine *)
CalculateNode ==
    /\ Len(hist) < MaxNodeSearches
    /\ \E depth \in 0 .. MaxNodeDepth :
          \E r \in {calculate_move(ai, depth)} :
              /\ ai' = r.a
              /\ hist' = Append(hist, [depth |-> depth, max_move |-> r.max_move])
              /\ last' = [op |-> "calculate", before |-> ai, depth |-> depth,
                          max_move |-> r.max_move]
    /\ UNCHANGED <<other, start, panicked>>

NextNode == SearchNode \/ CalculateNode

SpecNode == InitNode /\ [][NextNode]_vars

----------------------------------------------------------------------------
(* The entries the children of a node write: the loop of the node makes a  *)
(* move, the child stores its entry, the loop unmakes the move.  Here ai   *)
(* is [engine, tt]: the engine of mod.rs with its table, and a table of    *)
(* tt.rs given the same entries.  hist is the move made and not unmade.    *)

CollideStarts == {DuelPosition, EdgePosition}
CollideDepths == {ONE_PLY, 2 * ONE_PLY}

InitCollide ==
    /\ start \in CollideStarts
    /\ ai = [engine |-> AI_new(start, 1), tt |-> TranspositionTable_default]
    /\ other = NoEngine
    /\ hist = <<>>
    /\ last = [op |-> "new"]
    /\ panicked = FALSE

(* self.internal_make_move(mov) of the loop *)
CollideMake ==
    /\ hist = <<>>
    /\ \E mov \in LegalMoves(ai.engine) :
          /\ ai' = [ai EXCEPT !.engine = internal_make_move(@, mov)]
          /\ hist' = <<mov>>
    /\ last' = [op |-> "make"]
    /\ UNCHANGED <<other, start, panicked>>

(* self.internal_unmake_move(mov) of the loop *)
CollideUnmake ==
    /\ hist # <<>>
    /\ ai' = [ai EXCEPT !.engine = internal_unmake_move(@, hist[1])]
    /\ hist' = <<>>
    /\ last' = [op |-> "unmake"]
    /\ UNCHANGED <<other, start, panicked>>

(* self.insert_transposition(evaluation, Some(mov), depth) at the end of a *)
(* node, pv telling whether the node had a full window, and                *)
(* insert(hash, state, transposition) on the table of tt.rs                *)
CollideInsert ==
    /\ ai.tt.insertion < MaxTableInserts
    /\ \E depth \in CollideDepths, pv \in BOOLEAN :
          LET mov == AI_possible_moves(ai.engine)[1]
          IN  /\ ai' = [ engine |-> insert_transposition(ai.engine, Exact(0),
                                                         Some(mov), depth),
                         tt |-> tt_insert(ai.tt, ai.engine.hash, ai.engine.istate,
                                          [ evaluation |-> Exact(0),
                                            best_move |-> InternalMove_from(mov),
                                            depth |-> depth,
                                            ply |-> ai.engine.istate.ply ]) ]
              /\ last' = [op |-> "insert", before |-> ai, depth |-> depth, pv |-> pv]
    /\ UNCHANGED <<other, hist, start, panicked>>

NextCollide == CollideMake \/ CollideUnmake \/ CollideInsert

SpecCollide == InitCollide /\ [][NextCollide]_vars

----------------------------------------------------------------------------
(* A game from the initial position: every legal move of the side to move, *)
(* and the unmake of the move made last. `last` keeps the engine before    *)
(* the call and the move.                                                  *)

InitGame ==
    /\ start = DefaultGameState
    /\ ai = AI_new(start, 1)
    /\ other = NoEngine
    /\ hist = <<>>
    /\ last = [op |-> "new"]
    /\ panicked = FALSE

(* ai.make_move(mov) *)
GameMake ==
    /\ Len(hist) < MaxGamePly
    /\ \E mov \in LegalMoves(ai) :
          /\ ai' = make_move(ai, mov)
          /\ hist' = Append(hist, mov)
          /\ last' = [op |-> "make", before |-> ai, mov |-> mov]
    /\ UNCHANGED <<other, start, panicked>>

(* ai.unmake_move(mov) of the move made last *)
GameUnmake ==
    /\ Len(hist) > 0
    /\ ai' = unmake_move(ai, hist[Len(hist)])
    /\ hist' = Pop(hist)
    /\ last' = [op |-> "unmake", before |-> ai, mov |-> hist[Len(hist)]]
    /\ UNCHANGED <<other, start, panicked>>

NextGame == GameMake \/ GameUnmake

SpecGame == InitGame /\ [][NextGame]_vars

----------------------------------------------------------------------------
(* The calls of search_negamax, one step per call and per return. `ai`     *)
(* holds the engine and the stack of the calls that have not returned, the *)
(* frame of the caller below the frame of its callee. Scores and the table *)
(* are left out: where the code decides by a score or by an entry of the   *)
(* table (a cutoff, a table move, a re-search), both outcomes are steps.   *)

(* the depth a node of depth `depth` hands to the call `call`: mod.rs:167  *)
(* (table move), 209 (first move), 212 (null window), 215 (re-search)      *)
ChildDepth_retry_at_depth(call, depth) ==
    CASE call = "null" -> depth - TruncDiv(ONE_PLY * 5, 3)
      [] call = "retry" -> depth
      [] OTHER -> depth - ONE_PLY

ChildDepth(call, depth) ==
    CASE call = "null" -> depth - TruncDiv(ONE_PLY * 5, 3)
      [] OTHER -> depth - ONE_PLY

(* the frame of a call: tt is set once the table move was searched,        *)
(* index counts the moves of the loop that are done, explored is           *)
(* moves_explored > 0, pending holds the move made and not unmade whose    *)
(* null-window call has returned                                           *)
CallFrame(depth, ply, call, mov) ==
    [ depth |-> depth, ply |-> ply, call |-> call, mov |-> mov,
      tt |-> FALSE, index |-> 0, explored |-> FALSE, pending |-> None ]

(* steps 1 and 2: the node returns before it looks at the table or a move *)
NodeReturnsAtOnce(a, depth) ==
    \/ GameState_won(a.state, 1 - a.state.current_player)
    \/ depth <= 0

RootDepths ==
    { d * ONE_PLY + e : d \in 0 .. MaxRootDepth, e \in {-1, 0, 1} }

CallStarts == {TipsPosition, WonPosition}

Top(stack) == stack[Len(stack)]
ReplaceTop(stack, frame) == [stack EXCEPT ![Len(stack)] = frame]
CallMoves(a) == order(AI_possible_moves(a), 8, a.state.current_player)

InitCalls ==
    /\ start \in CallStarts
    /\ ai = [engine |-> AI_new(start, 1), stack |-> <<>>]
    /\ other = NoEngine
    /\ hist = <<>>
    /\ last = [op |-> "new"]
    /\ panicked = FALSE

(* search_negamax(1, alpha, beta, depth) called from outside, once *)
CallRoot ==
    /\ ai.stack = <<>>
    /\ hist = <<>>
    /\ \E depth \in RootDepths :
          /\ ai' = [ai EXCEPT !.stack = <<CallFrame(depth, 1, "root", None)>>]
          /\ hist' = Append(hist, depth)
          /\ last' = [op |-> "call", call |-> "root", caller |-> depth, depth |-> depth]
    /\ UNCHANGED <<other, start, panicked>>

(* step 3: the table has an entry of a lesser depth, its move is searched *)
CallTT ==
    /\ ai.stack # <<>>
    /\ LET f == Top(ai.stack)
       IN  /\ ~NodeReturnsAtOnce(ai.engine, f.depth)
           /\ ~f.tt /\ f.index = 0 /\ ~f.explored /\ f.pending = None
           /\ \E mov \in LegalMoves(ai.engine) :
                 /\ ai' = [ engine |-> internal_make_move(ai.engine, mov),
                            stack |-> Append(
                                ReplaceTop(ai.stack, [f EXCEPT !.tt = TRUE]),
                                CallFrame(ChildDepth("tt", f.depth), f.ply + 1,
                                          "tt", Some(mov))) ]
                 /\ last' = [op |-> "call", call |-> "tt", caller |-> f.depth,
                             depth |-> ChildDepth("tt", f.depth)]
    /\ UNCHANGED <<other, hist, start, panicked>>

(* step 4: the next move of the loop is made and searched, the first move *)
(* explored with the full window, any other with the null window          *)
CallMove ==
    /\ ai.stack # <<>>
    /\ LET f == Top(ai.stack)
           moves == CallMoves(ai.engine)
           call == IF f.explored THEN "null" ELSE "full"
       IN  /\ ~NodeReturnsAtOnce(ai.engine, f.depth)
           /\ f.pending = None
           /\ f.index < Len(moves)
           /\ ai' = [ engine |-> internal_make_move(ai.engine, moves[f.index + 1]),
                      stack |-> Append(
                          ai.stack,
                          CallFrame(ChildDepth(call, f.depth), f.ply + 1, call,
                                    Some(moves[f.index + 1]))) ]
           /\ last' = [op |-> "call", call |-> call, caller |-> f.depth,
                       depth |-> ChildDepth(call, f.depth)]
    /\ UNCHANGED <<other, hist, start, panicked>>

(* step 4: null_score > alpha, the move is searched again *)
CallRetry ==
    /\ ai.stack # <<>>
    /\ LET f == Top(ai.stack)
       IN  /\ f.pending # None
           /\ ai' = [ai EXCEPT !.stack =
                        Append(ai.stack,
                               CallFrame(ChildDepth("retry", f.depth), f.ply + 1,
                                         "retry", f.pending))]
           /\ last' = [op |-> "call", call |-> "retry", caller |-> f.depth,
                       depth |-> ChildDepth("retry", f.depth)]
    /\ UNCHANGED <<other, hist, start, panicked>>

(* step 4: null_score <= alpha, the move is unmade and the loop goes on *)
CallSkipRetry ==
    /\ ai.stack # <<>>
    /\ LET f == Top(ai.stack)
       IN  /\ f.pending # None
           /\ ai' = [ engine |-> internal_unmake_move(ai.engine, Unwrap(f.pending)),
                      stack |-> ReplaceTop(ai.stack,
                                    [f EXCEPT !.pending = None, !.explored = TRUE,
                                              !.index = @ + 1]) ]
           /\ last' = [op |-> "skip"]
    /\ UNCHANGED <<other, hist, start, panicked>>

(* a node returns: at once, by a cutoff, or at the end of its loop. The   *)
(* caller unmakes the move, but for a null-window call that it may search *)
(* again.                                                                  *)
CallReturn ==
    /\ ai.stack # <<>>
    /\ LET c == Top(ai.stack)
           below == Pop(ai.stack)
       IN  /\ c.pending = None
           /\ ai' =
                 CASE c.call = "root" -> [ai EXCEPT !.stack = <<>>]
                   [] c.call = "null" ->
                          [ai EXCEPT !.stack =
                              ReplaceTop(below, [Top(below) EXCEPT !.pending = c.mov])]
                   [] c.call = "tt" ->
                          [ engine |-> internal_unmake_move(ai.engine, Unwrap(c.mov)),
                            stack |-> ReplaceTop(below,
                                          [Top(below) EXCEPT !.explored = TRUE]) ]
                   [] OTHER ->
                          [ engine |-> internal_unmake_move(ai.engine, Unwrap(c.mov)),
                            stack |-> ReplaceTop(below,
                                          [Top(below) EXCEPT !.explored = TRUE,
                                                             !.pending = None,
                                                             !.index = @ + 1]) ]
           /\ last' = [op |-> "return", call |-> c.call, depth |-> c.depth,
                       called |-> (c.tt \/ c.index > 0)]
    /\ UNCHANGED <<other, hist, start, panicked>>

NextCalls ==
    CallRoot \/ CallTT \/ CallMove \/ CallRetry \/ CallSkipRetry \/ CallReturn

SpecCalls == InitCalls /\ [][NextCalls]_vars

----------------------------------------------------------------------------
(* Reference geometry for the claims: the star in doubled coordinates.     *)
(* An odd row lies half a cell to the left of an even row, so cell (x, y)  *)
(* sits at column 2x - (y % 2); the six neighbours are the cells two       *)
(* columns away in the row and one column away in the rows above and below.*)

Column2(c) == 2 * c[1] - (c[2] % 2)
ValidCells == {c \in Xs \X Ys : is_valid_location(c[1], c[2])}
HexAdjacent(c, d) ==
    \/ c[2] = d[2] /\ Abs(Column2(c) - Column2(d)) = 2
    \/ Abs(c[2] - d[2]) = 1 /\ Abs(Column2(c) - Column2(d)) = 1
(* the cell with the given doubled column in row y *)
CellAt(col2, y) == <<(col2 + (y % 2)) \div 2, y>>
(* the landing of the jump from c over its neighbour m *)
Landing(c, m) == CellAt(2 * Column2(m) - Column2(c), 2 * m[2] - c[2])

Occupied(state) == CellsOf(state, 0) \cup CellsOf(state, 1)
IsEmptyCell(state, d) ==
    /\ d[1] \in Xs /\ d[2] \in Ys
    /\ is_valid_location(d[1], d[2])
    /\ get(state, d[1], d[2]) = Empty
EmptyCells(state) == {c \in ValidCells : get(state, c[1], c[2]) = Empty}

RECURSIVE JumpClosure(_, _, _)
JumpClosure(state, occ, reached) ==
    LET more == UNION {{d \in {Landing(c, m) : m \in {n \in occ : HexAdjacent(c, n)}} :
                           IsEmptyCell(state, d)} : c \in reached}
    IN  IF more \subseteq reached THEN reached
        ELSE JumpClosure(state, occ, reached \cup more)

(* The destinations of the piece on c: one slide, or a chain of jumps.     *)
Destinations(state, c) ==
    (JumpClosure(state, Occupied(state), {c}) \ {c})
    \cup {d \in EmptyCells(state) : HexAdjacent(c, d)}

IndexSet(cells) == {pos_to_index(c[1], c[2]) : c \in cells}
ToSet(moves) == {moves[k].to : k \in 1 .. Len(moves)}

----------------------------------------------------------------------------
(* Claims *)

(* C1: for every reachable state and every legal move m, make_move(m)      *)
(* followed by unmake_move(m) gives back the engine exactly: board (both   *)
(* representations), side to move, ply, hash and evaluation aggregates.    *)
C1_MakeUnmakeRestores ==
    \A mov \in LegalMoves(ai) : unmake_move(make_move(ai, mov), mov) = ai

(* a make and its unmake have run and the engine is the constructed one *)
C1_Witness ==
    /\ last.op = "unmake"
    /\ hist = <<>>
    /\ ai = AI_new(start, ai.hasher)
    /\ LegalMoves(ai) # {}

(* C2: in every state reached by legal makes and unmakes the two            *)
(* bitboards are disjoint and hold no bit of the invalid mask.             *)
C2_BitboardsDisjointValid ==
    /\ ai.istate.pieces[0] \cap ai.istate.pieces[1] = {}
    /\ (ai.istate.pieces[0] \cup ai.istate.pieces[1]) \cap BB_INVALID = {}

C2_Witness ==
    /\ last.op = "unmake"
    /\ Len(hist) >= 1
    /\ ai.istate.pieces[0] # {} /\ ai.istate.pieces[1] # {}

(* C3: for every cell i of the side to move, reachable_from(i) holds only  *)
(* empty valid cells and not i, and every cell in it is a true destination *)
(* on the star: no wrap of an offset and no shift across a row end adds    *)
(* one.                                                                    *)
C3_ReachableSafe ==
    \A i \in ai.istate.pieces[ai.istate.current_player] :
        LET r == reachable_from(ai.istate, i)
        IN  /\ r \cap occupied_bb(ai.istate) = {}
            /\ r \cap BB_INVALID = {}
            /\ i \notin r
            /\ r \subseteq IndexSet(Destinations(ai.state, index_to_pos(i)))

(* a piece of the side to move at the end of a long row, next to the       *)
(* index where the next row starts, with destinations                      *)
C3_Witness ==
    /\ last.op = "make"
    /\ \E i \in ai.istate.pieces[ai.istate.current_player] :
          /\ index_to_pos(i)[1] = BOARD_WIDTH - 1
          /\ reachable_from(ai.istate, i) # {}

(* C4: on every occupied cell reachable_from gives exactly the              *)
(* destinations that GameState::moves_from finds on the same position.     *)
C4_ReachableMatchesMovesFrom ==
    LET internal == InternalGameState_from(ai.state)
    IN  \A p \in Players : \A c \in CellsOf(ai.state, p) :
            reachable_from(internal, pos_to_index(c[1], c[2]))
                = IndexSet(ToSet(moves_from(ai.state, c[1], c[2])))

(* some piece has a destination that is two jumps away and no slide *)
C4_Witness ==
    \E p \in Players : \E c \in CellsOf(ai.state, p) :
        \E d \in ToSet(moves_from(ai.state, c[1], c[2])) :
            /\ Abs(d[2] - c[2]) + Abs(Column2(d) - Column2(c)) > 4
            /\ pos_to_index(d[1], d[2])
                   \in reachable_from(ai.istate, pos_to_index(c[1], c[2]))

(* the hash of a position computed from scratch: the XOR of the word of   *)
(* every piece, and the side-to-move word when player 1 is to move         *)
RECURSIVE XorAll(_)
XorAll(words) ==
    IF Len(words) = 0 THEN 0 ELSE Xor(words[1], XorAll(Tail(words)))

RECURSIVE SetToSeq(_)
SetToSeq(S) ==
    IF S = {} THEN <<>>
    ELSE LET e == CHOOSE e \in S : TRUE IN <<e>> \o SetToSeq(S \ {e})

PieceWords(state, seed, p) ==
    LET cells == SetToSeq(CellsOf(state, p))
    IN  [k \in 1 .. Len(cells) |-> tile_hashes(seed, cells[k][1], cells[k][2], p)]

ScratchHash(state, seed) ==
    Xor(XorAll(PieceWords(state, seed, 0) \o PieceWords(state, seed, 1)),
        IF state.current_player = 1 THEN to_move_hash(seed) ELSE 0)

TriangleFull(state, p) == TargetCells(p) \subseteq Occupied(state)

(* C5 as stated: won(p) iff every cell of p's target triangle is occupied *)
(* by either player and at least one of p's pieces stands on it.          *)
C5_WonWhenTriangleFull ==
    \A p \in Players :
        LET full == /\ TriangleFull(ai.state, p)
                    /\ CellsOf(ai.state, p) \cap TargetCells(p) # {}
        IN  /\ won(ai.istate, p) <=> full
            /\ GameState_won(ai.state, p) <=> full

(* C5, as the code has it: InternalGameState::won(p) iff the pieces of p   *)
(* are exactly the cells of p's target triangle, GameState::won(p) iff     *)
(* every cell of the triangle holds a piece of p; a triangle with a piece  *)
(* of the opponent in it is not won, full or not.                          *)
C5_WonIffOwnPiecesFillTriangle ==
    \A p \in Players :
        /\ won(ai.istate, p) <=> CellsOf(ai.state, p) = TargetCells(p)
        /\ GameState_won(ai.state, p) <=> TargetCells(p) \subseteq CellsOf(ai.state, p)
        /\ CellsOf(ai.state, 1 - p) \cap TargetCells(p) # {}
               => ~won(ai.istate, p) /\ ~GameState_won(ai.state, p)

(* a move has filled a triangle that holds pieces of both players *)
C5_Witness ==
    /\ last.op = "make"
    /\ \E p \in Players :
          /\ TriangleFull(ai.state, p)
          /\ CellsOf(ai.state, p) \cap TargetCells(p) # {}
          /\ CellsOf(ai.state, 1 - p) \cap TargetCells(p) # {}

(* C8 as stated: the incremental hash equals the hash computed from        *)
(* scratch for the position.                                               *)
C8_HashEqualsScratch ==
    ai.hash = ScratchHash(ai.state, ai.hasher)

(* C8, as the code has it: AI::new starts the hash at 0, so the            *)
(* incremental hash is the from-scratch hash of the position XOR the       *)
(* from-scratch hash of the position the engine was constructed with.     *)
C8_HashEqualsScratchXorStart ==
    ai.hash = Xor(ScratchHash(ai.state, ai.hasher), ScratchHash(start, ai.hasher))

(* moves were made and unmade, one is still on the board, and the hash is  *)
(* not the from-scratch hash                                               *)
C8_Witness ==
    /\ last.op = "unmake"
    /\ Len(hist) = 1
    /\ ai.hash # ScratchHash(ai.state, ai.hasher)

(* C10: after any legal makes and unmakes the evaluation aggregates of     *)
(* both players (per kind, per row, distance to the goal side, distance to *)
(* the centre) are those of a fresh scan of the board.                     *)
C10_EvaluationMatchesScan ==
    ai.evaluation = Evaluation_from(ai.state)

(* a move is on the board after an unmake, and it changed the row counts  *)
(* and the distance of its player                                          *)
C10_Witness ==
    /\ last.op = "unmake"
    /\ Len(hist) = 1
    /\ \E p \in Players :
          /\ ai.evaluation.ys[p] # Evaluation_from(start).ys[p]
          /\ ai.evaluation.dist[p] # Evaluation_from(start).dist[p]

(* what the contract of make_move forbids: `from` does not hold a piece   *)
(* of the side to move, `to` is occupied, or an endpoint is invalid        *)
ContractViolation(a, mov) ==
    \/ ~is_valid_location(mov.from[1], mov.from[2])
    \/ ~is_valid_location(mov.to[1], mov.to[2])
    \/ get(a.state, mov.from[1], mov.from[2]) # Player(a.state.current_player)
    \/ get(a.state, mov.to[1], mov.to[2]) # Empty

(* C7: make_move with a move that violates the contract panics and leaves *)
(* no new board.                                                           *)
C7_ContractViolationPanics ==
    [][(last'.op = "move" /\ ContractViolation(ai, last'.mov))
          => (panicked' /\ ai'.state = ai.state /\ ai'.istate = ai.istate)]_vars

(* a move from a cell that holds no piece of the side to move was carried  *)
(* out without a panic                                                     *)
C7_Witness ==
    /\ last.op = "move"
    /\ ~panicked
    /\ Len(hist) = 1
    /\ get(start, last.mov.from[1], last.mov.from[2]) # Player(start.current_player)

SamePosition(a, b) ==
    /\ a.state.board = b.state.board
    /\ a.state.current_player = b.state.current_player
    /\ a.istate.pieces = b.istate.pieces
    /\ a.istate.current_player = b.istate.current_player

(* C9: two sequences of legal moves from the same start that end in the    *)
(* same position (same board, same side to move) leave the same hash.      *)
C9_SamePositionSameHash ==
    SamePosition(ai, other.ai) => ai.hash = other.ai.hash

(* the two engines reached one position by different sequences of moves,  *)
(* each of them with a move of both players                                *)
C9_Witness ==
    /\ SamePosition(ai, other.ai)
    /\ hist # other.hist
    /\ Len(hist) >= 3
    /\ Len(other.hist) >= 3
    /\ ai.state.board # start.board

(* mov is legal in the position of a: its from cell holds a piece of the  *)
(* side to move and its to cell is reachable from it                       *)
LegalIn(a, mov) ==
    LET m == InternalMove_from(mov)
    IN  /\ get(a.state, mov.from[1], mov.from[2]) = Player(a.state.current_player)
        /\ m.from \in a.istate.pieces[a.istate.current_player]
        /\ m.to \in reachable_from(a.istate, m.from)
        /\ mov.to \in Destinations(a.state, mov.from)

(* C6: calculate_move with a depth >= 0, where the side to move has a     *)
(* legal move, returns a move that is legal in the position it was called  *)
(* on, which is also the position it leaves; or it aborts.                 *)
C6_CalculateMoveLegal ==
    [][(last'.op = "calculate" /\ LegalMoves(ai) # {} /\ ~panicked /\ ~panicked')
          => /\ LegalIn(ai, Unwrap(last'.max_move))
             /\ LegalIn(ai', Unwrap(last'.max_move))]_vars

(* a search of the greatest depth returned a move that is not the first   *)
(* of the generated moves                                                  *)
C6_Witness ==
    /\ last.op = "calculate"
    /\ last.depth = MaxDepth
    /\ last.max_move # None
    /\ Len(hist) >= 1
    /\ Unwrap(last.max_move) # AI_possible_moves(ai)[1]

----------------------------------------------------------------------------
(* Claims about the move picker *)

(* the picker's position, and the entry its hash finds in the table *)
PickerState == Unwrap(ai.picker).state
PickerEntry == MovePicker_tt_entry(ai.tt, Unwrap(ai.picker).hash)

(* legal in the picker's position: from holds a piece of the side to move  *)
(* and to lies in reachable_from(from)                                     *)
PickerLegal(istate, mov) ==
    /\ mov.from \in istate.pieces[istate.current_player]
    /\ mov.to \in reachable_from(istate, mov.from)

Count(seq, e) == Cardinality({k \in 1 .. Len(seq) : seq[k] = e})

(* C11: every move the picker has returned is legal in the picker's        *)
(* position; when the table's move for the hash is not legal there, the    *)
(* picker raises no error and, run to the end, has returned exactly the    *)
(* generated moves, each once.                                             *)
C11_PickerYieldsLegal ==
    ai.picker # None =>
        /\ ~panicked
        /\ \A k \in 1 .. Len(hist) : PickerLegal(PickerState, hist[k])
        /\ (/\ last.op = "done"
            /\ PickerEntry # None
            /\ ~PickerLegal(PickerState, Unwrap(PickerEntry).best_move))
           => /\ SeqToSet(hist) = SeqToSet(possible_moves(PickerState))
              /\ Len(hist) = Len(possible_moves(PickerState))

C11_Witness ==
    /\ ai.picker # None
    /\ last.op = "done"
    /\ PickerEntry # None
    /\ Unwrap(PickerEntry).best_move.from
           \in PickerState.pieces[PickerState.current_player]
    /\ ~PickerLegal(PickerState, Unwrap(PickerEntry).best_move)
    /\ Len(hist) > 0

(* C12: when next has returned None, the picker has returned every legal   *)
(* move of its position exactly once.                                      *)
C12_PickerYieldsEachOnce ==
    (ai.picker # None /\ last.op = "done") =>
        /\ SeqToSet(hist) = SeqToSet(possible_moves(PickerState))
        /\ \A k \in 1 .. Len(hist) : Count(hist, hist[k]) = 1

(* the table's move was legal and returned first, and the picker has run   *)
(* to the end                                                              *)
C12_Witness ==
    /\ ai.picker # None
    /\ last.op = "done"
    /\ PickerEntry # None
    /\ PickerLegal(PickerState, Unwrap(PickerEntry).best_move)
    /\ hist[1] = Unwrap(PickerEntry).best_move

----------------------------------------------------------------------------
(* Claims about the transposition table *)

(* the low k bits of a hash *)
LowBits(hash, k) == hash - (hash \div Pow2(k)) * Pow2(k)

(* the last insert of the log that wrote the slot of `hash` in a table of  *)
(* 2^k slots, as a set: empty when no insert wrote it                      *)
LastWrite(log, hash, k) ==
    {log[i] : i \in {j \in 1 .. Len(log) :
                        /\ LowBits(log[j].hash, k) = LowBits(hash, k)
                        /\ \A l \in (j + 1) .. Len(log) :
                               LowBits(log[l].hash, k) # LowBits(hash, k)}}

(* what a lookup is to return: the entry of the last write of the slot     *)
(* when it was stored for the state asked for, nothing otherwise           *)
Expected(log, hash, state, k) ==
    IF \E w \in LastWrite(log, hash, k) : w.state = state
    THEN Some((CHOOSE w \in LastWrite(log, hash, k) : TRUE).t)
    ELSE None

(* C13: get(hash, state) returns the entry of the last insert into the     *)
(* slot of the hash when that insert was for the same state, and nothing   *)
(* when the slot is empty or was last written for another state; in both   *)
(* tables.                                                                 *)
C13_GetReturnsLastInsertOfState ==
    last.op = "get" =>
        /\ last.tt = Expected(hist, last.hash, last.state, tt_TT_BITS)
        /\ last.transpositions = Expected(hist, last.hash, last.state, TT_BITS)

(* a lookup of a state whose entry was overwritten through a colliding     *)
(* hash by an entry for another state, and a lookup that finds the entry   *)
C13_Witness ==
    /\ last.op = "get"
    /\ Len(hist) >= 2
    /\ hist[1].state = last.state
    /\ hist[1].hash = last.hash
    /\ hist[2].hash # last.hash
    /\ hist[2].state # last.state
    /\ last.tt = None
    /\ last.transpositions = None

----------------------------------------------------------------------------
(* Claims about the replacement policy *)

(* C14 as stated: the old entry is replaced iff pv is set, or the new      *)
(* entry's ply is at least 6 greater than the old entry's, or the new      *)
(* depth is at least the old depth.                                        *)
C14_ReplacedIffAtLeastSix ==
    last.op = "replace" =>
        (last.result <=> \/ ai.pv
                         \/ ai.new.ply - ai.old.ply >= 6
                         \/ ai.new.depth >= ai.old.depth)

(* C14, amended: the old entry is replaced iff pv is set, or the new       *)
(* entry's ply is more than 6 greater than the old entry's, or the new     *)
(* depth is at least the old depth.                                        *)
C14_ReplacedIffMoreThanSix ==
    last.op = "replace" =>
        (last.result <=> \/ ai.pv
                         \/ ai.new.ply - ai.old.ply > 6
                         \/ ai.new.depth >= ai.old.depth)

(* aged by more than 6 plies and replaced on that ground alone, and the    *)
(* entry exactly 6 plies older kept                                        *)
C14_Witness ==
    /\ last.op = "replace"
    /\ ~ai.pv
    /\ ai.new.depth < ai.old.depth
    /\ \/ ai.new.ply - ai.old.ply = 7 /\ last.result
       \/ ai.new.ply - ai.old.ply = 6 /\ ~last.result

----------------------------------------------------------------------------
(* Claims about the search of one ply *)

(* the move fills the mover's target triangle with the mover's pieces *)
WinsAtOnce(state, mov) ==
    TargetCells(state.current_player)
        \subseteq CellsOf(GameState_move_piece(state, mov), state.current_player)

(* C15: when the side to move has a move that fills its target triangle,   *)
(* calculate_move(1) returns a move that does.                             *)
C15_OnePlyFindsWin ==
    (/\ last.op = "calculate"
     /\ last.depth = 1
     /\ \E mov \in LegalMoves(ai) : WinsAtOnce(ai.state, mov))
    => /\ ~panicked
       /\ Unwrap(last.max_move) \in LegalMoves(ai)
       /\ WinsAtOnce(ai.state, Unwrap(last.max_move))

(* the move returned was played and the triangle is full; the winning      *)
(* move was a jump                                                         *)
C15_Witness ==
    /\ last.op = "make"
    /\ Len(hist) = 1
    /\ Abs(hist[1].to[2] - hist[1].from[2]) = 2
    /\ TargetCells(1 - ai.state.current_player)
           \subseteq CellsOf(ai.state, 1 - ai.state.current_player)

(* the static evaluation of the position `mov` leads to, computed from a  *)
(* scan of its board and taken from the side of the player who moved       *)
MoverScore(state, mov) ==
    LET ev == Evaluation_from(GameState_move_piece(state, mov))
        score == score_dist_last_piece(ev) + score_total_distance(ev)
                 + TruncDiv(score_centralization(ev), 3)
                 + TruncDiv(score_kinds(ev), 6)
    IN  IF state.current_player = 0 THEN score ELSE -score

(* C16: when no legal move fills the mover's target triangle,              *)
(* calculate_move(1) returns a legal move, and no legal move leads to a    *)
(* position with a higher static evaluation from the mover's side.         *)
C16_OnePlyMaximisesEvaluation ==
    (/\ last.op = "calculate"
     /\ last.depth = 1
     /\ ~panicked
     /\ \A mov \in LegalMoves(ai) : ~WinsAtOnce(ai.state, mov))
    => /\ Unwrap(last.max_move) \in LegalMoves(ai)
       /\ \A mov \in LegalMoves(ai) :
              MoverScore(ai.state, mov) <= MoverScore(ai.state, Unwrap(last.max_move))

(* player 1 to move, several moves with different evaluations, and the     *)
(* move returned is not the first one generated                            *)
C16_Witness ==
    /\ last.op = "calculate"
    /\ last.depth = 1
    /\ ~panicked
    /\ ai.state.current_player = 1
    /\ Unwrap(last.max_move) # AI_possible_moves(ai)[1]
    /\ \E mov \in LegalMoves(ai) :
           MoverScore(ai.state, mov) < MoverScore(ai.state, Unwrap(last.max_move))

----------------------------------------------------------------------------
(* Claims about the static evaluation *)

(* C17: on the initial board (15 pieces per side in their home triangles)  *)
(* the static evaluation is 0, whichever side is to move: the score of     *)
(* AI::evaluate_position and that of Evaluation::evaluate.                 *)
C17_InitialPositionEvaluatesToZero ==
    ai.state.board = DefaultGameState.board =>
        /\ evaluate_position(ai) = 0
        /\ Evaluation_evaluate(ai.evaluation, ai.istate) = 0

(* the initial board with player 1 to move, and the initial board come     *)
(* back to by a move made and unmade                                       *)
C17_Witness ==
    /\ ai.state.board = DefaultGameState.board
    /\ \/ ai.state.current_player = 1
       \/ last.op = "unmake"

----------------------------------------------------------------------------
(* Claims about the bitboard *)

(* the 256-bit logical shifts: bit i goes to i + n, or to i - n, and the   *)
(* bits moved past an end are dropped                                      *)
LogicalShl(bb, n) == {i + n : i \in bb} \cap BitIndices
LogicalShr(bb, n) == {i - n : i \in bb} \cap BitIndices

(* C18: for every board and every amount in 0..63 the shifts return the    *)
(* 256-bit logical shift of the board by the amount; a shift by 0 returns  *)
(* the board.                                                              *)
C18_ShiftsAreLogicalShifts ==
    /\ last.op = "shl" =>
           ~panicked /\ last.result = Some(LogicalShl(ai, last.bits))
    /\ last.op = "shr" =>
           ~panicked /\ last.result = Some(LogicalShr(ai, last.bits))

(* a shift by 0 of a build without overflow checks that returned another   *)
(* board than the one shifted                                              *)
C18_Witness ==
    /\ last.op \in {"shl", "shr"}
    /\ last.bits = 0
    /\ ~panicked
    /\ last.result # Some(ai)

(* the shifts by 1..63 are the logical shifts (not part of a claim's       *)
(* status; kept as the part of C18 that holds)                             *)
ShiftsFromOneAreLogical ==
    /\ (last.op = "shl" /\ last.bits >= 1) =>
           ~panicked /\ last.result = Some(LogicalShl(ai, last.bits))
    /\ (last.op = "shr" /\ last.bits >= 1) =>
           ~panicked /\ last.result = Some(LogicalShr(ai, last.bits))

(* C19: the bits not in BB_INVALID are exactly the indices of the 121      *)
(* cells is_valid_location accepts, and BB_TARGET[p] is exactly the image  *)
(* of targets(p): 15 cells each, disjoint, all valid, 30 in total.         *)
C19_MasksMatchTheBoard ==
    /\ BitIndices \ BB_INVALID = IndexSet(ValidCells)
    /\ Cardinality(BitIndices \ BB_INVALID) = 121
    /\ \A p \in Players :
          /\ BB_TARGET(p) = IndexSet(TargetCells(p))
          /\ Cardinality(BB_TARGET(p)) = 15
          /\ BB_TARGET(p) \cap BB_INVALID = {}
    /\ BB_TARGET(0) \cap BB_TARGET(1) = {}
    /\ Cardinality(BB_TARGET(0) \cup BB_TARGET(1)) = 30
    /\ last.op = "index" =>
          /\ last.valid <=> ~last.invalid_bit
          /\ last.targets = {p \in Players : ai \in TargetCells(p)}

(* a target cell of player 0 has been numbered: a playing cell, its bit    *)
(* in the target mask of player 0 only                                     *)
C19_Witness ==
    /\ last.op = "index"
    /\ ai \in TargetCells(0)
    /\ last.valid
    /\ last.targets = {0}

(* the index offsets of the six directions of moves_from, in the order of  *)
(* its table: west, east, south-east, south-west, north-east, north-west   *)
HexOffsets == <<-1, 1, LONG_ROW + 1, LONG_ROW, -LONG_ROW, -(LONG_ROW + 1)>>

(* C20: for every playing cell index_to_pos(pos_to_index(x, y)) = (x, y),  *)
(* its six neighbours as walked by moves_from have the indices index +-1,  *)
(* index +-13 and index +-14, and the jump landings lie at twice those     *)
(* offsets.                                                                *)
C20_NeighboursAtFixedOffsets ==
    /\ (last.op = "index" /\ last.valid) => last.pos = ai
    /\ last.op = "walk" =>
          /\ last.neighbour # None =>
                 last.neighbour = Some(last.index + HexOffsets[last.k])
          /\ last.landing # None =>
                 last.landing = Some(last.index + 2 * HexOffsets[last.k])

(* the south-east direction walked from a cell of an odd row, where the    *)
(* table's dx is 0, with the neighbour and the landing on the array        *)
C20_Witness ==
    /\ last.op = "walk"
    /\ last.k = 3
    /\ ai[2] % 2 = 1
    /\ last.neighbour # None
    /\ last.landing # None

----------------------------------------------------------------------------
(* Claims about the evaluation's kinds and the move ordering *)

(* C21: kind is the same on both ends of every jump step between playing   *)
(* cells and differs between any two adjacent playing cells: a slide       *)
(* changes the kind of the cell a piece stands on, a jump never does.      *)
C21_KindKeptByJumpsOnly ==
    last.op = "walk" =>
        /\ last.landing_kind # None => last.landing_kind = Some(last.kind)
        /\ last.neighbour_kind # None => last.neighbour_kind # Some(last.kind)

(* the north-west direction walked from a playing cell whose neighbour and *)
(* landing are playing cells: the landing of the same kind, the neighbour  *)
(* of another                                                              *)
C21_Witness ==
    /\ last.op = "walk"
    /\ last.k = 6
    /\ last.landing_kind = Some(last.kind)
    /\ last.neighbour_kind # None
    /\ last.neighbour_kind # Some(last.kind)

(* the ordering scores of the two iterators in the position they run on *)
OrderedScore(mov) == score_move_order(start.current_player, mov)
PickerScore(mov) == move_score(start.current_player, mov)

(* the moves the iterators were given and the moves they have yet to return *)
OrderedGenerated == GameState_possible_moves(start)
OrderedRemaining ==
    SubSeq(ai.ordered.moves, ai.ordered.index + 1, Len(ai.ordered.moves))
PickerGenerated ==
    LET istate == InternalGameState_from(start)
    IN  MovesOfPieces(istate, Ones(istate.pieces[istate.current_player]))
PickerRemaining ==
    IF ai.picker.stage.kind = "All"
    THEN SubSeq(ai.picker.stage.moves, ai.picker.stage.index + 1,
                Len(ai.picker.stage.moves))
    ELSE PickerGenerated

IsPermutation(s, t) ==
    /\ Len(s) = Len(t)
    /\ \A k \in 1 .. Len(s) : Count(s, s[k]) = Count(t, s[k])

(* each of the first n moves returned scores at least as much as every     *)
(* move returned after it and every move yet to be returned                *)
FirstAhead(returned, remaining, n, score(_)) ==
    LET all == returned \o remaining
    IN  \A i \in 1 .. Min(n, Len(returned)) : \A j \in (i + 1) .. Len(all) :
            score(all[i]) >= score(all[j])

(* C22: the ordered move iterator returns a permutation of the generated   *)
(* moves; each of its first 8 returns scores at least as much as every     *)
(* move returned after it; from the 9th return on the moves come in the    *)
(* order they are left in, with no further sorting.                        *)
C22_OrderedIteratorSortsFirstEight ==
    /\ IsPermutation(hist \o OrderedRemaining, OrderedGenerated)
    /\ IsPermutation(other \o PickerRemaining, PickerGenerated)
    /\ FirstAhead(hist, OrderedRemaining, 8, OrderedScore)
    /\ FirstAhead(other, PickerRemaining, 8, PickerScore)
    /\ (last.op = "ordered" /\ last.item # None /\ last.before.index >= 8) =>
           /\ ai.ordered.moves = last.before.moves
           /\ last.item = Some(last.before.moves[last.before.index + 1])
    /\ ( /\ last.op = "picker" /\ last.item # None
         /\ last.before.stage.kind = "All" /\ last.before.stage.index >= 8 ) =>
           /\ ai.picker.stage.moves = last.before.stage.moves
           /\ last.item =
                  Some(last.before.stage.moves[last.before.stage.index + 1])

(* the iterator over possible_moves has returned None after more than 8    *)
(* moves, and a move returned after the 8th scores less than a later one   *)
C22_Witness ==
    /\ last.op = "ordered"
    /\ last.item = None
    /\ Len(hist) > 8
    /\ \E i \in 9 .. Len(hist) : \E j \in (i + 1) .. Len(hist) :
           OrderedScore(hist[i]) < OrderedScore(hist[j])

(* the rows a move advances its piece toward the goal side of the player   *)
(* to move in the position the iterators run on                            *)
GoalRows(from, to) ==
    IF start.current_player = 0 THEN to[2] - from[2] ELSE from[2] - to[2]
OrderedGoalRows(mov) == GoalRows(mov.from, mov.to)
PickerGoalRows(mov) == GoalRows(index_to_pos(mov.from), index_to_pos(mov.to))

(* C23, as stated: the ordering score of a move is its signed row          *)
(* difference toward the mover's goal, so two moves of the same player     *)
(* with the same row change have the same score.                           *)
C23_ScoreIsRowDifference ==
    /\ \A k \in 1 .. Len(hist) : OrderedScore(hist[k]) = OrderedGoalRows(hist[k])
    /\ \A k \in 1 .. Len(other) : PickerScore(other[k]) = PickerGoalRows(other[k])

(* C23, amended: the score of score_move_order (mod.rs) is the signed row  *)
(* difference; the score of move_score (move_picker.rs) is the difference  *)
(* of the cell indices, which is greater for the move with the greater row *)
(* difference.                                                             *)
C23_ScoreOrdersByRowDifference ==
    /\ \A k \in 1 .. Len(hist) : OrderedScore(hist[k]) = OrderedGoalRows(hist[k])
    /\ \A k \in 1 .. Len(other) : \A l \in 1 .. Len(other) :
           PickerGoalRows(other[k]) < PickerGoalRows(other[l])
               => PickerScore(other[k]) < PickerScore(other[l])

(* both iterators have returned moves; the picker has returned two moves   *)
(* of the same row difference with different scores, and a move that       *)
(* advances more than another                                              *)
C23_Witness ==
    /\ Len(hist) > 0
    /\ \E k \in 1 .. Len(other) : \E l \in 1 .. Len(other) :
           /\ PickerGoalRows(other[k]) = PickerGoalRows(other[l])
           /\ PickerScore(other[k]) # PickerScore(other[l])
    /\ \E k \in 1 .. Len(other) : \E l \in 1 .. Len(other) :
           PickerGoalRows(other[k]) < PickerGoalRows(other[l])

----------------------------------------------------------------------------
(* Claims about a node of the search *)

(* the engine a call of search_negamax was made on had not been won by the *)
(* side that moved last: the node got past its first step                  *)
NodeNotWon ==
    ~GameState_won(last.before.state, 1 - last.before.state.current_player)

(* the call returned the static evaluation and searched nothing: one node  *)
(* visited, the table as it was                                            *)
NodeWasLeaf ==
    /\ last.score = evaluate_position(last.before)
    /\ ai.stats.visited_nodes = last.before.stats.visited_nodes + 1
    /\ ai.stats.visited_leaf_nodes = last.before.stats.visited_leaf_nodes + 1
    /\ ai.transpositions = last.before.transpositions

(* C24, as stated: a node entered with a remaining depth below ONE_PLY     *)
(* returns the static evaluation without generating or searching a move;   *)
(* this covers the depths 1..999 of a fractional reduction.                *)
C24_LeafBelowOnePly ==
    (last.op = "search" /\ NodeNotWon /\ last.depth < ONE_PLY) => NodeWasLeaf

(* C24, amended: a node entered with a remaining depth of 0 or less        *)
(* returns the static evaluation without generating or searching a move.   *)
C24_LeafAtDepthZeroOrLess ==
    (last.op = "search" /\ NodeNotWon /\ last.depth <= 0) => NodeWasLeaf

(* a node entered with a negative depth, as the child of a node of depth   *)
(* 334 is, has returned the static evaluation                              *)
C24_Witness ==
    /\ last.op = "search"
    /\ NodeNotWon
    /\ last.depth < 0
    /\ NodeWasLeaf

(* the entry the table held for the position of the node, if any, when    *)
(* the node was entered                                                    *)
NodeEntry ==
    TranspositionTable_get(last.before.transpositions, last.before.hash,
                           last.before.state)

(* the node was entered past its first two steps with an entry for its     *)
(* position of at least the depth asked for                                *)
NodeHadDeepEntry ==
    /\ last.op = "search"
    /\ NodeNotWon
    /\ last.depth > 0
    /\ NodeEntry # None
    /\ Unwrap(NodeEntry).depth >= last.depth

(* the score the entry stands for in the window of the node: the score of  *)
(* an Exact entry, beta for a lower bound >= beta, alpha for an upper      *)
(* bound <= alpha                                                           *)
NodeEntryScore ==
    LET evaluation == Unwrap(NodeEntry).evaluation
    IN  CASE evaluation[1] = "Exact" -> Some(evaluation[2])
          [] evaluation[1] = "LowerBound" /\ evaluation[2] >= last.beta -> Some(last.beta)
          [] evaluation[1] = "UpperBound" /\ evaluation[2] <= last.alpha -> Some(last.alpha)
          [] OTHER -> None

(* the call visited its own node only *)
NodeSearchedNothing ==
    ai.stats.visited_nodes = last.before.stats.visited_nodes + 1

(* C25, as stated: with an entry for the position of at least the depth    *)
(* asked for, the node returns at once without searching a move: the       *)
(* stored score of an Exact entry, beta for a lower bound >= beta, alpha   *)
(* for an upper bound <= alpha.                                            *)
C25_DeepEntryReturnsAtOnce ==
    (NodeHadDeepEntry /\ NodeEntryScore # None) =>
        /\ NodeSearchedNothing
        /\ last.score = Unwrap(NodeEntryScore)

(* C25, amended: the score the entry stands for is taken as the score of   *)
(* the table move.  When it is >= beta the node returns beta at once       *)
(* without searching a move; otherwise the node goes on to its moves with  *)
(* alpha raised to that score, and returns at least that score.            *)
C25_DeepEntryCutsOffAtBeta ==
    (NodeHadDeepEntry /\ NodeEntryScore # None) =>
        IF Unwrap(NodeEntryScore) >= last.beta
        THEN /\ NodeSearchedNothing
             /\ last.score = last.beta
             /\ ai.stats.tt_cutoffs = last.before.stats.tt_cutoffs + 1
        ELSE /\ last.score >= Max(last.alpha, Unwrap(NodeEntryScore))
             /\ last.score <= last.beta

(* a node with an Exact entry of at least the depth asked for and a score  *)
(* below beta has gone on to search its moves                              *)
C25_Witness ==
    /\ NodeHadDeepEntry
    /\ Unwrap(NodeEntry).evaluation[1] = "Exact"
    /\ Unwrap(NodeEntry).evaluation[2] < last.beta
    /\ ~NodeSearchedNothing

(* a node with an entry that stands for a score >= beta has returned beta  *)
(* at once                                                                 *)
NodeCutOffByEntry ==
    /\ NodeHadDeepEntry
    /\ NodeEntryScore # None
    /\ Unwrap(NodeEntryScore) >= last.beta
    /\ NodeSearchedNothing

(* the node went through its loop over the moves and ended it without a    *)
(* cutoff: a cutoff returns beta, the end of the loop an alpha below beta  *)
NodeCompletedLoop ==
    /\ last.op = "search"
    /\ NodeNotWon
    /\ last.depth > 0
    /\ last.score < last.beta

(* the entry the table holds for the position of the node after the call *)
NodeEntryAfter == TranspositionTable_get(ai.transpositions, ai.hash, ai.state)

(* C26: a node that completes its loop over the moves without a cutoff     *)
(* writes an entry for its position: Exact when some move raised alpha,    *)
(* an upper bound when none did.                                           *)
C26_CompletedLoopWritesEntry ==
    NodeCompletedLoop =>
        /\ NodeEntryAfter # None
        /\ Unwrap(NodeEntryAfter).evaluation =
               IF last.score > last.alpha THEN Exact(last.score)
               ELSE UpperBound(last.alpha)

(* a node has completed its loop with no move raising alpha, and the table *)
(* holds no entry for its position                                         *)
C26_Witness ==
    /\ NodeCompletedLoop
    /\ last.score = last.alpha
    /\ NodeEntryAfter = None

(* a node that completed its loop with alpha raised, on a position the     *)
(* table held nothing deeper for, has its Exact entry in the table (not    *)
(* part of a claim's status; the part of C26 that holds)                   *)
RaisedAlphaWritesExact ==
    ( /\ NodeCompletedLoop
      /\ last.score > last.alpha
      /\ NodeEntry # None => Unwrap(NodeEntry).depth <= last.depth ) =>
        /\ NodeEntryAfter # None
        /\ Unwrap(NodeEntryAfter).evaluation = Exact(last.score)
        /\ Unwrap(NodeEntryAfter).depth = last.depth

(* no call of search_negamax leaves an upper bound in the table *)
NoUpperBoundStored ==
    \A slot \in DOMAIN ai.transpositions.table :
        ai.transpositions.table[slot].t.evaluation[1] # "UpperBound"

----------------------------------------------------------------------------
(* Claims about the slots of the transposition tables *)

(* the slot of the engine's hash in the two tables, before and after the   *)
(* insert                                                                  *)
SlotOf(a) == a.hash % TT_SIZE
OldSlot == last.before.engine.transpositions.table[SlotOf(last.before.engine)]
NewSlot == ai.engine.transpositions.table[SlotOf(ai.engine)]
OldSlotTT == last.before.tt.table[last.before.engine.hash % tt_TT_SIZE]
NewSlotTT == ai.tt.table[ai.engine.hash % tt_TT_SIZE]

(* the insert found its slot taken, in both tables, by an entry of another *)
(* position                                                                *)
InsertCollided ==
    /\ last.op = "insert"
    /\ SlotOf(last.before.engine) \in DOMAIN last.before.engine.transpositions.table
    /\ OldSlot.state # last.before.engine.state
    /\ (last.before.engine.hash % tt_TT_SIZE) \in DOMAIN last.before.tt.table
    /\ OldSlotTT.state # last.before.engine.istate

----------------------------------------------------------------------------
(* Claims about the search as a whole *)

(* C28: calculate_move and search_negamax, whichever way they return,      *)
(* leave the board (in both representations), the side to move, the ply,   *)
(* the hash and the evaluation cache as they were at entry; only the       *)
(* transposition table and the statistics change.                          *)
C28_SearchRestoresPosition ==
    last.op \in {"search", "calculate"} =>
        [ai EXCEPT !.transpositions = last.before.transpositions,
                   !.stats = last.before.stats] = last.before

(* a node that made moves and returned by a cutoff has changed the table   *)
(* and the counters                                                        *)
C28_Witness ==
    /\ last.op = "search"
    /\ NodeNotWon
    /\ last.depth > 0
    /\ last.score = last.beta
    /\ ai.stats.beta_cutoffs > last.before.stats.beta_cutoffs
    /\ ai.transpositions # last.before.transpositions

(* the other ways a call returns: the win check, a leaf, a table cutoff,   *)
(* a completed loop, and calculate_move                                    *)
NodeReturnedAtWinCheck == last.op = "search" /\ ~NodeNotWon
NodeReturnedAtCompletedLoop ==
    NodeCompletedLoop /\ ai.stats.visited_nodes > last.before.stats.visited_nodes + 1
CalculateReturned == last.op = "calculate" /\ last.depth = MaxNodeDepth

----------------------------------------------------------------------------
(* C30: after any sequence of legal moves and unmakes from the initial     *)
(* position each player has exactly 15 pieces, on the array board and on   *)
(* the bitboards; a move (and the unmake of a move) takes one piece of the *)
(* player who moved from its cell to an empty cell and leaves the pieces   *)
(* of the other player where they were.                                    *)

(* the player whose piece the call of `last` moved *)
GameMover ==
    IF last.op = "make" THEN last.before.state.current_player
    ELSE 1 - last.before.state.current_player

(* the cell the piece left and the cell it went to *)
GameLeft == IF last.op = "make" THEN last.mov.from ELSE last.mov.to
GameEntered == IF last.op = "make" THEN last.mov.to ELSE last.mov.from

C30_FifteenPiecesEach ==
    /\ \A p \in Players :
          /\ Cardinality(ai.istate.pieces[p]) = 15
          /\ Cardinality(CellsOf(ai.state, p)) = 15
    /\ last.op \in {"make", "unmake"} =>
          LET b == last.before
              p == GameMover
              from == GameLeft
              to == GameEntered
          IN  /\ from \in CellsOf(b.state, p)
              /\ to \notin CellsOf(b.state, 0) \cup CellsOf(b.state, 1)
              /\ CellsOf(ai.state, p) = (CellsOf(b.state, p) \ {from}) \cup {to}
              /\ CellsOf(ai.state, 1 - p) = CellsOf(b.state, 1 - p)
              /\ ai.istate.pieces[p] =
                     (b.istate.pieces[p] \ {pos_to_index(from[1], from[2])})
                        \cup {pos_to_index(to[1], to[2])}
              /\ ai.istate.pieces[1 - p] = b.istate.pieces[1 - p]

(* two moves were made from the initial position, the second a jump of     *)
(* player 1 over two rows, and both players have left their camps          *)
C30_Witness ==
    /\ last.op = "make"
    /\ Len(hist) = 2
    /\ GameMover = 1
    /\ Abs(last.mov.to[2] - last.mov.from[2]) = 2
    /\ \A p \in Players : CellsOf(ai.state, p) # CellsOf(DefaultGameState, p)

(* a move was taken back after two moves were made *)
GameUnmadeSecondMove ==
    /\ last.op = "unmake"
    /\ Len(hist) = 1
    /\ ai.state.board # DefaultGameState.board

----------------------------------------------------------------------------
(* C29: search_negamax terminates. Every call that has not returned was    *)
(* made with a depth at least ONE_PLY below the depth of its caller and    *)
(* one ply further from the root; a caller has a depth above 0, and a node *)
(* of depth 0 or less has made no call; so the calls nested in a call of   *)
(* depth d are at most the plies of d, rounded up, and the call itself. A  *)
(* node goes through its moves once, so every step of a call and of the    *)
(* calls nested in it lowers a rank that cannot be lowered for ever.       *)

CeilDiv(a, b) == (a + b - 1) \div b
NestingBound(depth) == 1 + CeilDiv(Max(depth, 0), ONE_PLY)

(* how far a node has come: the table move searched, the moves of the     *)
(* loop done, the null-window call of the next move returned               *)
FrameProgress(f) ==
    2 * f.index + (IF f.pending # None THEN 1 ELSE 0)
      + (IF f.tt THEN 1 ELSE 0) + (IF f.tt /\ f.explored THEN 1 ELSE 0)

(* the rank of a state, read from the root down to level n: the call      *)
(* from outside still to make, then for every level what is left to do    *)
(* there; a level without a call ranks above a call just made              *)
CallRank(a, h, n) ==
    [ i \in 1 .. n + 1 |->
        IF i = 1
        THEN (IF h = <<>> THEN 2 ELSE 0) + (IF a.stack # <<>> THEN 1 ELSE 0)
        ELSE IF i - 1 <= Len(a.stack) THEN -FrameProgress(a.stack[i - 1])
        ELSE 1 ]

LexLess(s, t) ==
    \E k \in 1 .. Len(s) :
        /\ s[k] < t[k]
        /\ \A j \in 1 .. k - 1 : s[j] = t[j]

CallsNestNoDeeperThanDepth ==
    (last.op # "new" /\ ai.stack # <<>>) =>
       /\ \A i \in 2 .. Len(ai.stack) :
             /\ ai.stack[i].depth <= ai.stack[i - 1].depth - ONE_PLY
             /\ ai.stack[i].ply = ai.stack[i - 1].ply + 1
             /\ ai.stack[i - 1].depth > 0
       /\ \A i \in 1 .. Len(ai.stack) :
             ai.stack[i].depth <= 0 =>
                 /\ i = Len(ai.stack)
                 /\ FrameProgress(ai.stack[i]) = 0
       /\ Len(ai.stack) <= NestingBound(ai.stack[1].depth)
       /\ Top(ai.stack).pending = None =>
             Top(ai.stack).index <= Len(CallMoves(ai.engine))

CallsLowerRank ==
    LET n == Max(Len(ai.stack), Len(ai.stack'))
    IN  LexLess(CallRank(ai', hist', n), CallRank(ai, hist, n))

C29_SearchTerminates ==
    /\ []CallsNestNoDeeperThanDepth
    /\ [][CallsLowerRank]_vars

(* a call of more than two plies is nested as deep as its bound allows,   *)
(* through the re-search of a move whose null-window call has returned    *)
C29_Witness ==
    /\ last.op = "call" /\ last.call = "retry"
    /\ ai.stack[1].depth > 2 * ONE_PLY
    /\ Len(ai.stack) = NestingBound(ai.stack[1].depth)
    /\ Top(ai.stack).depth <= 0

(* a null-window call below a full-window call *)
CallNullBelowFull ==
    /\ Len(ai.stack) = 3
    /\ ai.stack[2].call = "full" /\ ai.stack[3].call = "null"

(* a node that made calls has returned *)
CallReturnedAfterCalls ==
    last.op = "return" /\ last.called /\ last.call = "root"

====
